---- MODULE Spec2Model ----
(***************************************************************************)
(* Model of the resilient API client of raindrop-cli: RaindropAPI.request  *)
(* (retry loop, timeout guard, dry-run interception), the zod response     *)
(* schemas behind parseResponse, and the facade methods built on them.     *)
(*                                                                         *)
(* A response is modelled as delivered whole: status, Retry-After header   *)
(* and body.  A 2xx body is either JSON text (one of ServerBodies) or text *)
(* that response.json() rejects.  A thrown fetch and an abort by the       *)
(* timeout guard are separate outcomes of the transport call.              *)
(***************************************************************************)
EXTENDS Integers, Sequences, FiniteSets, TLC

(***************************************************************************)
(* Bounds of the model                                                     *)
(***************************************************************************)
MaxId == 1

(***************************************************************************)
(* Program constants                                                       *)
(***************************************************************************)
MAX_RETRIES == 3
REQUEST_TIMEOUT_MS == 60000
BackoffBaseMs == 1000
BackoffMaxMs == 30000
JitterRangeMs == 1000
DefaultRetryAfter == 10


(***************************************************************************)
(* Strings that the code inspects are sequences of characters              *)
(***************************************************************************)
P_user == <<"/", "u", "s", "e", "r">>
P_user_stats == <<"/", "u", "s", "e", "r", "/", "s", "t", "a", "t", "s">>
P_collections_all == <<"/", "c", "o", "l", "l", "e", "c", "t", "i", "o", "n", "s", "/", "a", "l", "l">>
P_collections == <<"/", "c", "o", "l", "l", "e", "c", "t", "i", "o", "n", "s">>
P_collections_childrens == <<"/", "c", "o", "l", "l", "e", "c", "t", "i", "o", "n", "s", "/", "c", "h", "i", "l", "d", "r", "e", "n", "s">>
P_collection == <<"/", "c", "o", "l", "l", "e", "c", "t", "i", "o", "n">>
P_collection_ == <<"/", "c", "o", "l", "l", "e", "c", "t", "i", "o", "n", "/">>
P_collections_merge == <<"/", "c", "o", "l", "l", "e", "c", "t", "i", "o", "n", "s", "/", "m", "e", "r", "g", "e">>
P_collections_clean == <<"/", "c", "o", "l", "l", "e", "c", "t", "i", "o", "n", "s", "/", "c", "l", "e", "a", "n">>
P_collections_covers_ == <<"/", "c", "o", "l", "l", "e", "c", "t", "i", "o", "n", "s", "/", "c", "o", "v", "e", "r", "s", "/">>
P_tags == <<"/", "t", "a", "g", "s">>
P_tags_ == <<"/", "t", "a", "g", "s", "/">>
P_raindrop == <<"/", "r", "a", "i", "n", "d", "r", "o", "p">>
P_raindrop_ == <<"/", "r", "a", "i", "n", "d", "r", "o", "p", "/">>
P_raindrops_ == <<"/", "r", "a", "i", "n", "d", "r", "o", "p", "s", "/">>
P_suggest == <<"/", "s", "u", "g", "g", "e", "s", "t">>

\* String.prototype.includes
Includes(s, sub) ==
  \E i \in 0..(Len(s) - Len(sub)) : SubSeq(s, i + 1, i + Len(sub)) = sub

DigitChar(d) == <<"0", "1", "2", "3", "4", "5", "6", "7", "8", "9">>[d + 1]

RECURSIVE NatStr(_)
NatStr(n) == IF n < 10 THEN <<DigitChar(n)>>
             ELSE NatStr(n \div 10) \o <<DigitChar(n % 10)>>

\* `${id}` for a number
NumStr(n) == IF n < 0 THEN <<"-">> \o NatStr(0 - n) ELSE NatStr(n)

(***************************************************************************)
(* JSON values                                                             *)
(***************************************************************************)
JUndef == [t |-> "undef"]
JNull == [t |-> "null"]
JNum(n) == [t |-> "num", n |-> n]
JStr(s) == [t |-> "str", s |-> s]
JBool(b) == [t |-> "bool", b |-> b]
JArr(a) == [t |-> "arr", a |-> a]
JObj(o) == [t |-> "obj", o |-> o]
EmptyObj == JObj(<<>>)

\* property access obj[key]; undefined when the key is missing
Get(v, key) == IF v.t = "obj" /\ key \in DOMAIN v.o THEN v.o[key] ELSE JUndef

(***************************************************************************)
(* zod schemas (src/api/schemas.ts) as data, and safeParse over them       *)
(***************************************************************************)
ZNumber == [k |-> "number"]
ZString == [k |-> "string"]
ZBoolean == [k |-> "boolean"]
ZEnum(vals) == [k |-> "enum", vals |-> vals]
ZArray(of) == [k |-> "array", of |-> of]
ZObject(shape) == [k |-> "object", shape |-> shape]
ZOptional(of) == [k |-> "optional", of |-> of]

\* z.optional(): only the missing value (undefined) passes without the
\* inner schema
OptionalAccepts(v) == v.t = "undef"

RECURSIVE Validate(_, _)
Validate(schema, v) ==
  CASE schema.k = "number" -> v.t = "num"
    [] schema.k = "string" -> v.t = "str"
    [] schema.k = "boolean" -> v.t = "bool"
    [] schema.k = "enum" -> v.t = "str" /\ v.s \in schema.vals
    [] schema.k = "array" ->
         v.t = "arr" /\ \A i \in 1..Len(v.a) : Validate(schema.of, v.a[i])
    [] schema.k = "object" ->
         v.t = "obj" /\ \A key \in DOMAIN schema.shape :
                          Validate(schema.shape[key], Get(v, key))
    [] schema.k = "optional" -> OptionalAccepts(v) \/ Validate(schema.of, v)

\* result.data of a successful safeParse: unknown keys are stripped, keys
\* of the shape whose value is undefined are left out
RECURSIVE ParsedData(_, _)
ParsedData(schema, v) ==
  CASE schema.k = "array" ->
         JArr([i \in 1..Len(v.a) |-> ParsedData(schema.of, v.a[i])])
    [] schema.k = "object" ->
         JObj([key \in {f \in DOMAIN schema.shape : Get(v, f).t # "undef"} |->
                 ParsedData(schema.shape[key], Get(v, key))])
    [] schema.k = "optional" ->
         IF v.t = "undef" THEN v ELSE ParsedData(schema.of, v)
    [] OTHER -> v

RaindropUserSchema ==
  ZObject(("_id" :> ZNumber) @@ ("fullName" :> ZString) @@
          ("email" :> ZOptional(ZString)) @@ ("avatar" :> ZOptional(ZString)) @@
          ("pro" :> ZOptional(ZBoolean)))

CollectionSchema ==
  ZObject(("_id" :> ZNumber) @@ ("title" :> ZString) @@ ("count" :> ZNumber) @@
          ("parent" :> ZOptional(ZObject("$id" :> ZNumber))) @@
          ("cover" :> ZOptional(ZArray(ZString))) @@
          ("color" :> ZOptional(ZString)) @@
          ("view" :> ZOptional(ZEnum({"list", "simple", "grid", "masonry"}))) @@
          ("public" :> ZOptional(ZBoolean)) @@
          ("expanded" :> ZOptional(ZBoolean)) @@
          ("lastUpdate" :> ZOptional(ZString)) @@
          ("created" :> ZOptional(ZString)) @@
          ("sort" :> ZOptional(ZNumber)))

HighlightSchema ==
  ZObject(("_id" :> ZString) @@ ("text" :> ZString) @@
          ("note" :> ZOptional(ZString)) @@ ("color" :> ZOptional(ZString)) @@
          ("created" :> ZOptional(ZString)))

MediaSchema == ZObject(("link" :> ZString) @@ ("type" :> ZString))

\* variant: tags may be missing
RaindropTags_Optional == ZOptional(ZArray(ZString))

\* tags: z.array(z.string())
RaindropTags == ZArray(ZString)

RaindropSchema ==
  ZObject(("_id" :> ZNumber) @@ ("title" :> ZString) @@ ("link" :> ZString) @@
          ("excerpt" :> ZOptional(ZString)) @@ ("note" :> ZOptional(ZString)) @@
          ("type" :> ZOptional(ZEnum({"link", "article", "image", "video",
                                      "document", "audio"}))) @@
          ("tags" :> RaindropTags) @@
          ("cover" :> ZOptional(ZString)) @@ ("domain" :> ZOptional(ZString)) @@
          ("created" :> ZOptional(ZString)) @@
          ("lastUpdate" :> ZOptional(ZString)) @@
          ("collection" :> ZOptional(ZObject("$id" :> ZNumber))) @@
          ("highlights" :> ZOptional(ZArray(HighlightSchema))) @@
          ("important" :> ZOptional(ZBoolean)) @@
          ("removed" :> ZOptional(ZBoolean)) @@
          ("media" :> ZOptional(ZArray(MediaSchema))))

TagSchema == ZObject(("_id" :> ZString) @@ ("count" :> ZOptional(ZNumber)))

UserStatsSchema == ZObject(("_id" :> ZNumber) @@ ("count" :> ZNumber))

UserResponseSchema ==
  ZObject(("result" :> ZBoolean) @@ ("user" :> RaindropUserSchema))

CollectionResponseSchema ==
  ZObject(("result" :> ZBoolean) @@ ("item" :> CollectionSchema))

CollectionsResponseSchema ==
  ZObject(("result" :> ZBoolean) @@ ("items" :> ZArray(CollectionSchema)))

RaindropResponseSchema ==
  ZObject(("result" :> ZBoolean) @@ ("item" :> RaindropSchema))

RaindropsResponseSchema ==
  ZObject(("result" :> ZBoolean) @@ ("items" :> ZArray(RaindropSchema)))

TagsResponseSchema ==
  ZObject(("result" :> ZBoolean) @@ ("items" :> ZArray(TagSchema)))

StatsResponseSchema ==
  ZObject(("result" :> ZBoolean) @@ ("items" :> ZArray(UserStatsSchema)))

ResultResponseSchema ==
  ZObject(("result" :> ZBoolean) @@ ("count" :> ZOptional(ZNumber)))

SuggestionsResponseSchema ==
  ZObject(("result" :> ZBoolean) @@
          ("item" :> ZOptional(ZObject(
             ("tags" :> ZOptional(ZArray(ZString))) @@
             ("collections" :> ZOptional(ZArray(CollectionSchema)))))))

CoversResponseSchema ==
  ZObject(("result" :> ZBoolean) @@
          ("items" :> ZArray(ZObject(
             "icons" :> ZOptional(ZArray(ZObject("png" :> ZString)))))))

(***************************************************************************)
(* RaindropError and the pure helpers of src/api/client.ts                 *)
(***************************************************************************)
NoHint == "undefined"

\* new RaindropError(message, statusCode = 500, hint)
RaindropError(msg, statusCode, hint) ==
  [kind |-> "error", status |-> statusCode, hint |-> hint, msg |-> msg,
   value |-> JUndef]

Returned(v) ==
  [kind |-> "ok", status |-> 0, hint |-> NoHint, msg |-> <<>>, value |-> v]

NoResult ==
  [kind |-> "none", status |-> 0, hint |-> NoHint, msg |-> <<>>,
   value |-> JUndef]

Min(a, b) == IF a < b THEN a ELSE b
Max(a, b) == IF a > b THEN a ELSE b

RECURSIVE Pow2(_)
Pow2(n) == IF n = 0 THEN 1 ELSE 2 * Pow2(n - 1)

\* variant: the delay is not capped
calculateBackoff_Uncapped(attempt, baseMs, maxMs, jitter) ==
  baseMs * Pow2(attempt) + jitter

\* calculateBackoff(attempt, baseMs, maxMs); jitter stands for
\* Math.random() * 1000
calculateBackoff(attempt, baseMs, maxMs, jitter) ==
  LET exponential == baseMs * Pow2(attempt)
  IN Min(exponential + jitter, maxMs)

\* values of Math.random() * 1000 that the model draws
JitterValues == {0, JitterRangeMs - 1}

IsDigit(c) == c \in {"0", "1", "2", "3", "4", "5", "6", "7", "8", "9"}
DigitVal(c) == CHOOSE d \in 0..9 : DigitChar(d) = c

RECURSIVE LeadingDigits(_)
LeadingDigits(s) ==
  IF s = <<>> \/ ~IsDigit(Head(s)) THEN <<>>
  ELSE <<Head(s)>> \o LeadingDigits(Tail(s))

RECURSIVE DigitsValue(_)
DigitsValue(ds) ==
  IF ds = <<>> THEN 0
  ELSE 10 * DigitsValue(SubSeq(ds, 1, Len(ds) - 1)) + DigitVal(ds[Len(ds)])

\* Number.parseInt(s, 10): an optional sign, then the longest run of
\* digits; NaN when there is no digit
ParseInt(s) ==
  LET signed == s # <<>> /\ Head(s) \in {"-", "+"}
      rest == IF signed THEN Tail(s) ELSE s
      ds == LeadingDigits(rest)
  IN IF ds = <<>> THEN [nan |-> TRUE, v |-> 0]
     ELSE [nan |-> FALSE,
           v |-> IF signed /\ Head(s) = "-" THEN 0 - DigitsValue(ds)
                 ELSE DigitsValue(ds)]

\* a Retry-After header: missing, or its text
NoHeader == [present |-> FALSE, text |-> <<>>]
Header(text) == [present |-> TRUE, text |-> text]

\* variant: the header is not read
RetryAfterText_Ignored(header) == NatStr(DefaultRetryAfter)

\* response.headers.get("Retry-After") || "10"
RetryAfterText(header) ==
  IF header.present /\ header.text # <<>> THEN header.text
  ELSE NatStr(DefaultRetryAfter)

\* variant: the smaller of the two delays
RateLimitBackoff_Min(header, attempt, jitter) ==
  LET retryAfter == ParseInt(RetryAfterText(header))
  IN IF retryAfter.nan THEN retryAfter
     ELSE [nan |-> FALSE,
           v |-> Min(retryAfter.v * 1000,
                     calculateBackoff(attempt, BackoffBaseMs, BackoffMaxMs,
                                      jitter))]

\* Math.max(retryAfter * 1000, calculateBackoff(attempt)); NaN if
\* retryAfter is NaN
RateLimitBackoff(header, attempt, jitter) ==
  LET retryAfter == ParseInt(RetryAfterText(header))
  IN IF retryAfter.nan THEN retryAfter
     ELSE [nan |-> FALSE,
           v |-> Max(retryAfter.v * 1000,
                     calculateBackoff(attempt, BackoffBaseMs, BackoffMaxMs,
                                      jitter))]

\* the time that delay(ms) of node:timers/promises waits: a delay that is
\* NaN, below 1 or above 2^31 - 1 is set to 1
Delay(ms) ==
  IF ms.nan \/ ms.v < 1 \/ ms.v > 2147483647 THEN 1 ELSE ms.v

Ms(v) == [nan |-> FALSE, v |-> v]

\* variant: only server errors are not ok
ResponseOk_Below500(status) == status >= 200 /\ status <= 499

\* response.ok
ResponseOk(status) == status >= 200 /\ status <= 299

\* variant: the ceiling test is off by one
CeilingReached_OffByOne(attempt) == attempt > MAX_RETRIES

\* attempt >= MAX_RETRIES
CeilingReached(attempt) == attempt >= MAX_RETRIES

\* the hint chosen for a non-retried HTTP error
\* variant: no hint for any status
HintFor_None(status) == NoHint

HintFor(status) ==
  IF status = 401
    THEN "Authentication failed. Try running 'raindrop login' again."
  ELSE IF status = 404
    THEN "The requested resource was not found. Verify the ID is correct."
  ELSE IF status = 400
    THEN "Invalid request. Check your input parameters."
  ELSE NoHint

RateLimitError ==
  RaindropError(<<"Rate limit exceeded. Maximum retries reached.">>, 429,
                "Wait a few minutes before trying again.")

ServerError(status) ==
  RaindropError(<<"Server Error: ", ToString(status)>>, status,
                "The Raindrop.io server is experiencing issues. Try again later.")

ApiError(status) ==
  RaindropError(<<"API Error ", ToString(status), ": ", "errorDetail">>,
                status, HintFor(status))

TimeoutError ==
  RaindropError(<<"Request timeout after ", ToString(REQUEST_TIMEOUT_MS), "ms">>,
                504, "The request took too long. Try again later.")

NetworkError ==
  RaindropError(<<"Network Error: ", "error">>, 503,
                "Check your internet connection and try again.")

MaxRetriesError == RaindropError(<<"Maximum retries exceeded">>, 504, NoHint)

\* variant: PUT is not intercepted
IsMutating_NoPut(method) == method \in {"POST", "DELETE"}

\* the dry-run test of request()
IsMutating(method) == method \in {"POST", "PUT", "DELETE"}

DryRunCollection ==
  JObj(("_id" :> JNum(0)) @@ ("title" :> JStr("Dry Run Collection")) @@
       ("count" :> JNum(0)))

DryRunRaindrop ==
  JObj(("_id" :> JNum(0)) @@ ("title" :> JStr("Dry Run Item")) @@
       ("link" :> JStr("http://dryrun.com")) @@ ("tags" :> JArr(<<>>)))

\* variant: one placeholder item for every path
getDryRunResponse_OneItem(method, path) ==
  IF method = "DELETE" THEN JObj("result" :> JBool(TRUE))
  ELSE JObj(("result" :> JBool(TRUE)) @@
            ("item" :> JObj(("_id" :> JNum(0)) @@
                            ("title" :> JStr("Dry Run Item")) @@
                            ("link" :> JStr("http://dryrun.com")))) @@
            ("items" :> JArr(<<>>)))

getDryRunResponse(method, path) ==
  IF method = "DELETE" THEN JObj("result" :> JBool(TRUE))
  ELSE IF path = P_user
    THEN JObj(("result" :> JBool(TRUE)) @@
              ("user" :> JObj(("_id" :> JNum(0)) @@
                              ("fullName" :> JStr("Dry Run User")))))
  ELSE IF Includes(path, P_tags)
    THEN JObj(("result" :> JBool(TRUE)) @@ ("items" :> JArr(<<>>)))
  ELSE IF Includes(path, P_collections) \/ Includes(path, P_collection)
    THEN JObj(("result" :> JBool(TRUE)) @@ ("item" :> DryRunCollection) @@
              ("items" :> JArr(<<>>)))
  ELSE IF Includes(path, P_raindrop)
    THEN JObj(("result" :> JBool(TRUE)) @@ ("item" :> DryRunRaindrop) @@
              ("items" :> JArr(<<>>)))
  ELSE JObj(("result" :> JBool(TRUE)) @@
            ("item" :> JObj("_id" :> JNum(0))) @@ ("items" :> JArr(<<>>)))

(***************************************************************************)
(* The facade methods of RaindropAPI that make one request() call          *)
(***************************************************************************)
Ids == 0..MaxId

GetMethods == {"getUser", "getStats", "getCollections", "getRootCollections",
               "getChildCollections", "getCollection", "searchCovers",
               "getTags", "getRaindrop", "getSuggestions"}

DeleteMethods == {"deleteCollection", "deleteCollections", "emptyTrash",
                  "deleteTags", "deleteRaindrop", "batchDeleteRaindrops"}

MutatingMethods == DeleteMethods \cup
  {"createCollection", "updateCollection", "reorderCollections",
   "expandAllCollections", "mergeCollections", "cleanEmptyCollections",
   "renameTag", "addRaindrop", "updateRaindrop", "batchUpdateRaindrops"}

FacadeMethods == GetMethods \cup MutatingMethods

\* the methods whose path carries an identifier argument
TakesId == {"getCollection", "updateCollection", "deleteCollection",
            "getTags", "deleteTags", "renameTag", "getRaindrop",
            "updateRaindrop", "deleteRaindrop", "batchUpdateRaindrops",
            "batchDeleteRaindrops", "getSuggestions"}

FacadeCalls ==
  {[name |-> n, id |-> i] : n \in TakesId, i \in Ids} \cup
  {[name |-> n, id |-> 0] : n \in FacadeMethods \ TakesId}

\* the HTTP method that the facade method hands to request()
OpMethod(name) ==
  CASE name \in GetMethods \cup {"search"} -> "GET"
    [] name \in DeleteMethods -> "DELETE"
    [] name \in {"createCollection", "addRaindrop"} -> "POST"
    [] OTHER -> "PUT"

\* the path that the facade method hands to request()
OpPath(name, id) ==
  CASE name = "getUser" -> P_user
    [] name = "getStats" -> P_user_stats
    [] name = "getCollections" -> P_collections_all
    [] name = "getRootCollections" -> P_collections
    [] name = "getChildCollections" -> P_collections_childrens
    [] name \in {"getCollection", "updateCollection", "deleteCollection"} ->
         P_collection_ \o NumStr(id)
    [] name = "createCollection" -> P_collection
    [] name \in {"deleteCollections", "reorderCollections",
                 "expandAllCollections"} -> P_collections
    [] name = "mergeCollections" -> P_collections_merge
    [] name = "cleanEmptyCollections" -> P_collections_clean
    [] name = "searchCovers" -> P_collections_covers_ \o <<"q">>
    [] name = "emptyTrash" -> P_collection_ \o NumStr(-99)
    [] name \in {"getTags", "deleteTags", "renameTag"} -> P_tags_ \o NumStr(id)
    [] name \in {"getRaindrop", "updateRaindrop", "deleteRaindrop"} ->
         P_raindrop_ \o NumStr(id)
    [] name = "addRaindrop" -> P_raindrop
    [] name \in {"search", "batchUpdateRaindrops", "batchDeleteRaindrops"} ->
         P_raindrops_ \o NumStr(id)
    [] name = "getSuggestions" -> P_raindrop_ \o NumStr(id) \o P_suggest

\* the schema that the facade method hands to parseResponse
OpSchema(name) ==
  CASE name = "getUser" -> UserResponseSchema
    [] name = "getStats" -> StatsResponseSchema
    [] name \in {"getCollections", "getRootCollections",
                 "getChildCollections"} -> CollectionsResponseSchema
    [] name \in {"getCollection", "createCollection", "updateCollection"} ->
         CollectionResponseSchema
    [] name = "searchCovers" -> CoversResponseSchema
    [] name = "getTags" -> TagsResponseSchema
    [] name \in {"getRaindrop", "addRaindrop", "updateRaindrop"} ->
         RaindropResponseSchema
    [] name = "getSuggestions" -> SuggestionsResponseSchema
    [] OTHER -> ResultResponseSchema

\* variant: the failure is reported as a bad request
parseResponse_Status400(schema, data, context) ==
  IF ~Validate(schema, data)
    THEN RaindropError(<<"Invalid API response for ", context, ": ", "issues">>,
                       400, NoHint)
    ELSE Returned(ParsedData(schema, data))

\* parseResponse(schema, data, context)
parseResponse(schema, data, context) ==
  IF ~Validate(schema, data)
    THEN RaindropError(<<"Invalid API response for ", context, ": ", "issues">>,
                       500, NoHint)
    ELSE Returned(ParsedData(schema, data))

RECURSIVE Flatten(_)
Flatten(ss) == IF ss = <<>> THEN <<>> ELSE Head(ss) \o Flatten(Tail(ss))

IsPng(icon) == Get(icon, "png").s # ""

\* the loop of searchCovers over parsed.items
CoverIcons(items) ==
  Flatten([i \in 1..Len(items) |->
    LET icons == Get(items[i], "icons")
        list == IF icons.t = "undef" THEN <<>> ELSE icons.a
        pngs == SelectSeq(list, IsPng)
    IN [j \in 1..Len(pngs) |-> Get(pngs[j], "png")]])

\* x ?? undefined
Nullish(v) == IF v.t \in {"null", "undef"} THEN JUndef ELSE v

\* what the facade method returns from the parsed envelope
FacadeValue(name, parsed) ==
  CASE name = "getUser" -> Get(parsed, "user")
    [] name \in {"getStats", "getCollections", "getRootCollections",
                 "getChildCollections", "getTags"} -> Get(parsed, "items")
    [] name \in {"getCollection", "createCollection", "updateCollection",
                 "getRaindrop", "addRaindrop", "updateRaindrop"} ->
         Get(parsed, "item")
    [] name = "cleanEmptyCollections" ->
         IF Get(parsed, "count").t = "undef" THEN JNum(0)
         ELSE Get(parsed, "count")
    [] name = "searchCovers" -> JArr(CoverIcons(Get(parsed, "items").a))
    [] name = "getSuggestions" ->
         LET item == IF Get(parsed, "item").t = "undef" THEN EmptyObj
                     ELSE Get(parsed, "item")
         IN JObj(("tags" :> Nullish(Get(item, "tags"))) @@
                 ("collections" :> Nullish(Get(item, "collections"))))
    [] OTHER -> Get(parsed, "result")

\* the facade method after request() has returned data
Facade(name, data) ==
  LET parsed == parseResponse(OpSchema(name), data, name)
  IN IF parsed.kind = "error" THEN parsed
     ELSE Returned(FacadeValue(name, parsed.value))

(***************************************************************************)
(* What the server and the network can answer                              *)
(***************************************************************************)
SomeCollection ==
  JObj(("_id" :> JNum(5)) @@ ("title" :> JStr("Work")) @@ ("count" :> JNum(2)) @@
       ("view" :> JStr("list")) @@ ("extra" :> JStr("x")))

SomeRaindrop ==
  JObj(("_id" :> JNum(9)) @@ ("title" :> JStr("T")) @@ ("link" :> JStr("l")) @@
       ("tags" :> JArr(<<JStr("b"), JStr("a")>>)))

RaindropWithoutTags ==
  JObj(("_id" :> JNum(9)) @@ ("title" :> JStr("T")) @@ ("link" :> JStr("l")))

\* JSON bodies of 2xx responses
ServerBodies == <<
  JObj("result" :> JBool(TRUE)),
  JObj(("result" :> JBool(TRUE)) @@ ("count" :> JNum(2))),
  JObj(("result" :> JBool(TRUE)) @@
       ("user" :> JObj(("_id" :> JNum(1)) @@ ("fullName" :> JStr("U")) @@
                       ("email" :> JStr("e"))))),
  JObj(("result" :> JBool(TRUE)) @@ ("item" :> SomeCollection)),
  JObj(("result" :> JBool(TRUE)) @@ ("item" :> SomeRaindrop)),
  JObj(("result" :> JBool(TRUE)) @@ ("item" :> RaindropWithoutTags)),
  JObj(("result" :> JBool(TRUE)) @@ ("items" :> JArr(<<>>))),
  JObj(("result" :> JBool(TRUE)) @@ ("items" :> JArr(<<SomeRaindrop>>))),
  JObj(("result" :> JBool(TRUE)) @@ ("items" :> JArr(<<SomeCollection>>))),
  JObj(("result" :> JBool(TRUE)) @@
       ("items" :> JArr(<<JObj("icons" :> JArr(<<JObj("png" :> JStr("p")),
                                                 JObj("png" :> JStr(""))>>)),
                          EmptyObj>>))),
  JObj(("result" :> JBool(TRUE)) @@
       ("items" :> JArr(<<JObj(("_id" :> JStr("t")) @@ ("count" :> JNum(3)))>>))),
  JObj(("result" :> JBool(TRUE)) @@
       ("item" :> JObj("tags" :> JArr(<<JStr("s")>>)))),
  JObj("result" :> JStr("yes")),
  EmptyObj,
  JNull,
  JObj(("result" :> JBool(TRUE)) @@
       ("items" :> JArr(<<SomeRaindrop, RaindropWithoutTags>>)))
>>

\* a body is one of ServerBodies, or 0: text that is not JSON
NotJson == 0
Bodies == 0..Len(ServerBodies)

\* the i-th raindrop of page pg of a search
PageItem(pg, i) ==
  JObj(("_id" :> JNum(pg * 1000 + i)) @@ ("title" :> JStr("T")) @@
       ("link" :> JStr("l")) @@ ("tags" :> JArr(<<JStr("b"), JStr("a")>>)))

\* a page of n raindrops
PageOf(pg, n) ==
  JObj(("result" :> JBool(TRUE)) @@
       ("items" :> JArr([i \in 1..n |-> PageItem(pg, i)])))

\* the body of such a page in the outcome records
PageBody == Len(ServerBodies) + 1

Statuses == {200, 400, 401, 404, 429, 500, 503}

RetryAfterHeaders ==
  {NoHeader, Header(<<>>), Header(<<"0">>), Header(<<"1">>),
   Header(<<"3", "0">>), Header(<<"s", "o", "o", "n">>)}

(***************************************************************************)
(* State of one client instance and of the facade calls made on it         *)
(***************************************************************************)
VARIABLES
  dryRun,     \* this.dryRun
  op,         \* the facade call in progress: method name and identifier
  pc,         \* "idle", "fetching" (awaiting fetch), "sleeping" (awaiting
              \* delay(backoff)) or "done"
  attempt,    \* the local variable attempt of request()
  guard,      \* TRUE while the timer of setTimeout(controller.abort) is armed
  calls,      \* number of fetch calls made so far
  sleeps,     \* number of delay(backoff) calls made so far
  lastSleep,  \* the time waited by the latest delay(backoff)
  hist,       \* the outcomes of the fetch calls of this request, in order
  last,       \* the latest outcome with its header and body
  result,     \* what the facade call returned or raised
  logs,       \* the lines handed to this.logger
  token,      \* this.token
  page,       \* the local variable page of search()
  allItems,   \* the local variable allItems of search()
  reqs,       \* the params of the request() calls made by search(), in order
  pages,      \* parsed.items of each page that search() received, in order
  input,      \* the arguments of a function applied on its own
  output,     \* what that function returned
  tasks,      \* the request() invocations running concurrently, each with
              \* its own locals
  env,        \* process.env.RAINDROP_TOKEN
  config,     \* the configuration file ~/.config/raindrop-cli/config.json
  cmd         \* the command being run: its name, position and exit

\* the locals of search()
searchVars == <<page, allItems, reqs, pages>>

\* what a single facade call never touches
cmdVars == <<env, config, cmd>>
otherVars == <<token, input, output, tasks, cmdVars>>

vars == <<dryRun, op, pc, attempt, guard, calls, sleeps, lastSleep, hist,
          last, result, logs, searchVars, otherVars>>

NoCall == [name |-> "none", id |-> 0]
NoInput == [fn |-> "none"]
NoOutput == [fn |-> "none"]
SomeToken == <<"s", "e", "c", "r", "e", "t">>
NoOutcome == [kind |-> "none", status |-> 0, header |-> NoHeader, body |-> NotJson]

\* the methods that pass options.json to request()
PassesJson == {"createCollection", "updateCollection", "deleteCollections",
               "reorderCollections", "expandAllCollections",
               "mergeCollections", "deleteTags", "renameTag", "addRaindrop",
               "updateRaindrop", "batchUpdateRaindrops",
               "batchDeleteRaindrops"}

\* the lines logged by an intercepted call
DryRunLog(c) ==
  <<[level |-> "log", tag |-> "[DRY RUN]", method |-> OpMethod(c.name),
     path |-> OpPath(c.name, c.id)]>> \o
  (IF c.name \in PassesJson
     THEN <<[level |-> "log", tag |-> "Payload", method |-> OpMethod(c.name),
             path |-> OpPath(c.name, c.id)]>>
     ELSE <<>>)

RetryLog(tag) ==
  [level |-> "warn", tag |-> tag, method |-> OpMethod(op.name),
   path |-> OpPath(op.name, op.id)]

\* no facade call in progress
InitCall ==
  /\ op = NoCall
  /\ pc = "idle"
  /\ attempt = 0
  /\ guard = FALSE
  /\ calls = 0
  /\ sleeps = 0
  /\ lastSleep = 0
  /\ hist = <<>>
  /\ last = NoOutcome
  /\ result = NoResult
  /\ logs = <<>>
  /\ page = 0
  /\ allItems = <<>>
  /\ reqs = <<>>
  /\ pages = <<>>

\* a string that may be missing: undefined or null, or the string v
Absent == [set |-> FALSE]
Present(v) == [set |-> TRUE, v |-> v]

\* the configuration file: missing, or holding a text that is blank, is not
\* JSON, or is the JSON text of data
NoFile == [exists |-> FALSE]
FileOf(kind, data) == [exists |-> TRUE, kind |-> kind, data |-> data]
BlankFile == FileOf("blank", JUndef)
GarbageFile == FileOf("garbage", JUndef)
JsonFile(data) == FileOf("json", data)

NoCmd == [name |-> "none", pc |-> "idle", exit |-> 0]

\* no command is run: RAINDROP_TOKEN unset, no configuration file
InitCommand ==
  /\ env = Absent
  /\ config = NoFile
  /\ cmd = NoCmd

\* no function applied on its own, no concurrent invocation
InitOther ==
  /\ input = NoInput
  /\ output = NoOutput
  /\ tasks = <<>>
  /\ InitCommand

\* new RaindropAPI(token, dryRun)
Init ==
  /\ dryRun \in BOOLEAN
  /\ token = SomeToken
  /\ InitCall
  /\ InitOther

\* variant: the loop gives up one attempt before the ceiling
LoopContinues_OneLess(att) == att < MAX_RETRIES - 1

\* the test of `while (attempt < MAX_RETRIES)`
LoopContinues(att) == att < MAX_RETRIES

\* the head of the retry loop: arm the timeout guard and call fetch, or
\* leave the loop and raise the fallback error
EnterLoop(att) ==
  IF LoopContinues(att)
    THEN /\ pc' = "fetching"
         /\ guard' = TRUE
         /\ calls' = calls + 1
         /\ result' = result
    ELSE /\ pc' = "done"
         /\ guard' = guard
         /\ calls' = calls
         /\ result' = MaxRetriesError

\* variant: search() catches the error and returns the items it holds
Raise_PartialResult(err) ==
  /\ pc' = "done"
  /\ result' = IF op.name = "search" /\ allItems # <<>>
                 THEN Returned(JArr(allItems)) ELSE err
  /\ UNCHANGED <<calls, sleeps, lastSleep, logs>>

\* throw out of request(): the facade method lets the error propagate
Raise(err) ==
  /\ pc' = "done"
  /\ result' = err
  /\ UNCHANGED <<calls, sleeps, lastSleep, logs>>

\* variant: a network error is retried without being counted
RetryOrRaise_NetworkUncounted(err, backoff, tag) ==
  LET counted == IF tag = "Network error" THEN attempt ELSE attempt + 1
  IN /\ attempt' = counted
     /\ IF CeilingReached(counted)
          THEN Raise(err)
          ELSE /\ pc' = "sleeping"
               /\ sleeps' = sleeps + 1
               /\ lastSleep' = Delay(backoff)
               /\ logs' = Append(logs, RetryLog(tag))
               /\ UNCHANGED <<calls, result>>

\* a retryable failure: count it, then raise at the ceiling or wait
\* delay(backoff) before the next turn of the loop
RetryOrRaise(err, backoff, tag) ==
  /\ attempt' = attempt + 1
  /\ IF CeilingReached(attempt + 1)
       THEN Raise(err)
       ELSE /\ pc' = "sleeping"
            /\ sleeps' = sleeps + 1
            /\ lastSleep' = Delay(backoff)
            /\ logs' = Append(logs, RetryLog(tag))
            /\ UNCHANGED <<calls, result>>

\* the cap of `Math.min(limit, 50)`
PageSizeCap == 50

\* const perPage = Math.min(limit, 50)
PerPage(limit) == Min(limit, PageSizeCap)

\* variant: every request asks for the first page
PageParams_FirstPage(pg, limit) == [page |-> 0, perpage |-> PerPage(limit)]

\* the params of the request() call that search() makes for a page
PageParams(pg, limit) == [page |-> pg, perpage |-> PerPage(limit)]

\* variant: the whole page is pushed
Slice_All(items, remaining) == items

\* items.slice(0, remaining)
Slice(items, remaining) == SubSeq(items, 1, Min(remaining, Len(items)))

\* variant: a short page does not end the loop
ShortPage_Never(items, perPage) == FALSE

\* the test of `if (items.length < perPage) break`
ShortPage(items, perPage) == Len(items) < perPage

\* `return allItems`
SearchReturns(items) ==
  /\ pc' = "done"
  /\ result' = Returned(JArr(items))
  /\ guard' = FALSE
  /\ UNCHANGED <<attempt, calls, sleeps, lastSleep, logs>>

\* variant: the attempt count is carried over from the call before
FirstAttempt_Carried == attempt

\* `let attempt = 0` at the start of every request() call
FirstAttempt == 0

\* the body of the while loop of search() after request() has returned data,
\* then the test of the loop and the next request() call
SearchPage(data) ==
  LET parsed == parseResponse(RaindropsResponseSchema, data, "search")
      items == Get(parsed.value, "items").a
      remaining == op.limit - Len(allItems)
      pushed == allItems \o Slice(items, remaining)
  IN IF parsed.kind = "error"
       THEN /\ pc' = "done"
            /\ result' = parsed
            /\ guard' = FALSE
            /\ UNCHANGED <<attempt, calls, sleeps, lastSleep, logs, searchVars>>
     ELSE IF Len(items) = 0
       THEN /\ pages' = Append(pages, items)
            /\ SearchReturns(allItems)
            /\ UNCHANGED <<page, allItems, reqs>>
     ELSE IF ShortPage(items, PerPage(op.limit))
       THEN /\ pages' = Append(pages, items)
            /\ allItems' = pushed
            /\ SearchReturns(pushed)
            /\ UNCHANGED <<page, reqs>>
     ELSE /\ pages' = Append(pages, items)
          /\ allItems' = pushed
          /\ page' = page + 1
          /\ IF Len(pushed) < op.limit
               THEN /\ reqs' = Append(reqs, PageParams(page + 1, op.limit))
                    /\ attempt' = FirstAttempt
                    /\ EnterLoop(FirstAttempt)
                    /\ UNCHANGED <<sleeps, lastSleep, logs>>
               ELSE SearchReturns(pushed) /\ UNCHANGED reqs

\* request() returns data to the facade method that awaits it
RequestReturns(data) ==
  IF op.name = "search"
    THEN SearchPage(data)
    ELSE /\ pc' = "done"
         /\ result' = Facade(op.name, data)
         /\ guard' = FALSE
         /\ UNCHANGED <<attempt, calls, sleeps, lastSleep, logs, searchVars>>

\* search(query, collectionId, limit) is called
Search(collectionId, limit) ==
  /\ pc = "idle"
  /\ op' = [name |-> "search", id |-> collectionId, limit |-> limit]
  /\ page' = 0
  /\ allItems' = <<>>
  /\ pages' = <<>>
  /\ IF 0 < limit
       THEN /\ reqs' = <<PageParams(0, limit)>>
            /\ attempt' = FirstAttempt
            /\ EnterLoop(FirstAttempt)
       ELSE /\ reqs' = <<>>
            /\ pc' = "done"
            /\ result' = Returned(JArr(<<>>))
            /\ UNCHANGED <<attempt, guard, calls>>
  /\ UNCHANGED <<dryRun, sleeps, lastSleep, hist, last, logs, otherVars>>

\* a facade method is called
Call(c) ==
  /\ pc = "idle"
  /\ op' = c
  /\ IF dryRun /\ IsMutating(OpMethod(c.name))
       THEN /\ logs' = logs \o DryRunLog(c)
            /\ pc' = "done"
            /\ result' = Facade(c.name,
                                getDryRunResponse(OpMethod(c.name),
                                                  OpPath(c.name, c.id)))
            /\ UNCHANGED <<attempt, guard, calls>>
       ELSE /\ attempt' = FirstAttempt
            /\ EnterLoop(FirstAttempt)
            /\ UNCHANGED logs
  /\ UNCHANGED <<dryRun, sleeps, lastSleep, hist, last, searchVars, otherVars>>

\* fetch resolves with a response
FetchResponds(status, header, body, jitter) ==
  /\ pc = "fetching"
  /\ header # NoHeader => status = 429
  /\ body # NotJson => ResponseOk(status)
  /\ last' = [kind |-> "response", status |-> status, header |-> header,
              body |-> body]
  /\ hist' = Append(hist, [kind |-> "response", status |-> status,
                            json |-> body # NotJson])
  /\ IF status = 429
       THEN /\ RetryOrRaise(RateLimitError,
                            RateLimitBackoff(header, attempt + 1, jitter),
                            "Rate limited")
            /\ guard' = FALSE
            /\ UNCHANGED searchVars
     ELSE IF status >= 500
       THEN /\ RetryOrRaise(ServerError(status),
                            Ms(calculateBackoff(attempt + 1, BackoffBaseMs,
                                                BackoffMaxMs, jitter)),
                            "Server error")
            /\ guard' = FALSE
            /\ UNCHANGED searchVars
     ELSE IF ~ResponseOk(status)
       THEN /\ Raise(ApiError(status))
            /\ guard' = FALSE
            /\ UNCHANGED <<attempt, searchVars>>
     ELSE IF body = NotJson
       \* response.json() rejects inside the try block
       THEN /\ RetryOrRaise(NetworkError,
                            Ms(calculateBackoff(attempt + 1, BackoffBaseMs,
                                                BackoffMaxMs, jitter)),
                            "Network error")
            /\ guard' = FALSE
            /\ UNCHANGED searchVars
     ELSE RequestReturns(ServerBodies[body])
  /\ UNCHANGED <<dryRun, op, otherVars>>

\* the server answers a page request of search() with n raindrops
FetchRespondsPage(n) ==
  /\ pc = "fetching"
  /\ op.name = "search"
  /\ last' = [kind |-> "response", status |-> 200, header |-> NoHeader,
              body |-> PageBody]
  /\ hist' = Append(hist, [kind |-> "response", status |-> 200,
                            json |-> TRUE])
  /\ RequestReturns(PageOf(reqs[Len(reqs)].page, n))
  /\ UNCHANGED <<dryRun, op, otherVars>>

\* variant: the catch block leaves the timeout guard armed
FetchThrows_GuardKept(jitter) ==
  /\ pc = "fetching"
  /\ guard' = guard
  /\ last' = [kind |-> "throw", status |-> 0, header |-> NoHeader,
              body |-> NotJson]
  /\ hist' = Append(hist, [kind |-> "throw", status |-> 0, json |-> FALSE])
  /\ RetryOrRaise(NetworkError,
                  Ms(calculateBackoff(attempt + 1, BackoffBaseMs,
                                      BackoffMaxMs, jitter)),
                  "Network error")
  /\ UNCHANGED <<dryRun, op, searchVars, otherVars>>

\* fetch rejects with an error other than AbortError
FetchThrows(jitter) ==
  /\ pc = "fetching"
  /\ guard' = FALSE
  /\ last' = [kind |-> "throw", status |-> 0, header |-> NoHeader,
              body |-> NotJson]
  /\ hist' = Append(hist, [kind |-> "throw", status |-> 0, json |-> FALSE])
  /\ RetryOrRaise(NetworkError,
                  Ms(calculateBackoff(attempt + 1, BackoffBaseMs,
                                      BackoffMaxMs, jitter)),
                  "Network error")
  /\ UNCHANGED <<dryRun, op, searchVars, otherVars>>

\* variant: the abort falls into the generic retry path
TimeoutFires_Retried ==
  /\ pc = "fetching"
  /\ guard
  /\ guard' = FALSE
  /\ last' = [kind |-> "abort", status |-> 0, header |-> NoHeader,
              body |-> NotJson]
  /\ hist' = Append(hist, [kind |-> "abort", status |-> 0, json |-> FALSE])
  /\ \E jitter \in JitterValues :
       RetryOrRaise(NetworkError,
                    Ms(calculateBackoff(attempt + 1, BackoffBaseMs,
                                        BackoffMaxMs, jitter)),
                    "Network error")
  /\ UNCHANGED <<dryRun, op, searchVars, otherVars>>

\* the timer fires: controller.abort() makes fetch reject with AbortError
TimeoutFires ==
  /\ pc = "fetching"
  /\ guard
  /\ guard' = FALSE
  /\ last' = [kind |-> "abort", status |-> 0, header |-> NoHeader,
              body |-> NotJson]
  /\ hist' = Append(hist, [kind |-> "abort", status |-> 0, json |-> FALSE])
  /\ Raise(TimeoutError)
  /\ UNCHANGED <<dryRun, op, attempt, searchVars, otherVars>>

\* delay(backoff) resolves: next turn of the loop
SleepEnds ==
  /\ pc = "sleeping"
  /\ EnterLoop(attempt)
  /\ UNCHANGED <<dryRun, op, attempt, sleeps, lastSleep, hist, last, logs,
                 searchVars, otherVars>>

Next ==
  \/ \E c \in FacadeCalls : Call(c)
  \/ \E status \in Statuses, header \in RetryAfterHeaders, body \in Bodies,
        jitter \in JitterValues : FetchResponds(status, header, body, jitter)
  \/ \E jitter \in JitterValues : FetchThrows(jitter)
  \/ TimeoutFires
  \/ SleepEnds

Spec == Init /\ [][Next]_vars

(***************************************************************************)
(* The facade methods that return raindrops, search() with its pages       *)
(***************************************************************************)
MaxFullPages == 1

\* limits below, at and above the page size cap
SearchLimits ==
  {0, 1, 5, 10} \cup
  UNION {{PageSizeCap * k, PageSizeCap * k + 1} : k \in 1..MaxFullPages}

\* the numbers of raindrops in the larger pages the server sends
PageLens == {10, 12, PageSizeCap}

\* the bodies answered to these calls: not JSON, a raindrop with and
\* without tags, no items, one item, an item without tags
RaindropBodies == {NotJson, 5, 6, 7, 8, 16}

RaindropCalls ==
  {[name |-> "getRaindrop", id |-> i] : i \in Ids} \cup
  {[name |-> "updateRaindrop", id |-> i] : i \in Ids} \cup
  {[name |-> "addRaindrop", id |-> 0]}

NextRaindrops ==
  \/ \E limit \in SearchLimits : Search(0, limit)
  \/ \E c \in RaindropCalls : Call(c)
  \/ \E status \in {200, 404, 500}, body \in RaindropBodies :
       FetchResponds(status, NoHeader, body, 0)
  \/ \E n \in PageLens : FetchRespondsPage(n)
  \/ FetchThrows(0)
  \/ TimeoutFires
  \/ SleepEnds

SpecRaindrops == Init /\ [][NextRaindrops]_vars

(***************************************************************************)
(* Properties of request(): retry ceiling and failure classification       *)
(***************************************************************************)
\* the i-th transport call answered HTTP 429 or HTTP >= 500
RateOrServerFailure(i) ==
  hist[i].kind = "response" /\ (hist[i].status = 429 \/ hist[i].status >= 500)

\* the i-th transport call failed in a retryable way: 429, >= 500 or a
\* thrown exception that is not an abort
RetryableFailure(i) == RateOrServerFailure(i) \/ hist[i].kind = "throw"

\* the latest transport call answered 2xx with a JSON body that fits the
\* schema of the facade method
LastIsValid2xx ==
  /\ last.kind = "response"
  /\ last.status >= 200 /\ last.status <= 299
  /\ last.body # NotJson
  /\ Validate(OpSchema(op.name), ServerBodies[last.body])

\* C1: a request for which every response is 429 or >= 500 makes exactly 3
\* transport calls and then raises; after two such responses a valid 2xx
\* response on the third call makes the request succeed with 3 calls made.
C1_RetryCeiling ==
  /\ (hist # <<>> /\ \A i \in 1..Len(hist) : RateOrServerFailure(i)) =>
       /\ calls <= 3
       /\ Len(hist) < 3 => pc \in {"sleeping", "fetching"}
       /\ Len(hist) = 3 => pc = "done" /\ calls = 3 /\ result.kind = "error"
  /\ (Len(hist) = 3 /\ RateOrServerFailure(1) /\ RateOrServerFailure(2)
        /\ LastIsValid2xx) =>
       pc = "done" /\ calls = 3 /\ result.kind = "ok"

C1_Witness ==
  /\ pc = "done" /\ calls = 3 /\ result.kind = "ok"
  /\ RateOrServerFailure(1) /\ RateOrServerFailure(2)

\* the status that the terminal error of the i-th failure carries
TerminalStatusOf(i) ==
  IF hist[i].kind = "throw" THEN 503 ELSE hist[i].status

\* C2: 429, >= 500 and thrown exceptions count against one ceiling: the
\* third such failure ends the request, no fourth transport call is made,
\* and the error raised is the one of the third failure.
C2_SharedCounter ==
  /\ calls <= 3
  /\ (Len(hist) >= 3 /\ \A i \in 1..3 : RetryableFailure(i)) =>
       /\ Len(hist) = 3 /\ calls = 3 /\ attempt = 3
       /\ pc = "done"
       /\ result.kind = "error"
       /\ result.status = TerminalStatusOf(3)

\* a mix: three retryable failures of three different kinds
C2_Witness ==
  /\ pc = "done" /\ Len(hist) = 3
  /\ \A i \in 1..3 : RetryableFailure(i)
  /\ \E i, j, k \in 1..3 :
       /\ hist[i].kind = "throw"
       /\ hist[j].kind = "response" /\ hist[j].status = 429
       /\ hist[k].kind = "response" /\ hist[k].status >= 500

\* the latest response has a non-2xx status below 500 other than 429
LastIsClientError ==
  /\ last.kind = "response"
  /\ ~(last.status >= 200 /\ last.status <= 299)
  /\ last.status < 500
  /\ last.status # 429

\* C3: a non-2xx status below 500 other than 429 raises an error with that
\* status at once, on whichever attempt: the request is over, and neither a
\* sleep nor a transport call follows the response.
C3_ClientErrorNotRetried ==
  /\ LastIsClientError =>
       /\ pc = "done"
       /\ result.kind = "error"
       /\ result.status = last.status
       /\ calls = Len(hist)
       /\ sleeps = Len(hist) - 1
  /\ (Len(hist) >= 1 /\ hist[1].kind = "response" /\ hist[1].status = 404) =>
       pc = "done" /\ calls = 1 /\ sleeps = 0 /\ result.status = 404

\* a 404 on a later attempt, after a retried failure
C3_Witness ==
  /\ LastIsClientError /\ last.status = 404
  /\ Len(hist) = 2 /\ RetryableFailure(1)
  /\ pc = "done"

\* C4: an abort by the timeout guard, on whichever attempt, raises an error
\* with status 504 whose message names the timeout of 60000 ms; no sleep and
\* no transport call follows it.
C4_TimeoutTerminal ==
  last.kind = "abort" =>
    /\ pc = "done"
    /\ result.kind = "error"
    /\ result.status = 504
    /\ \E i \in 1..Len(result.msg) : result.msg[i] = "60000"
    /\ calls = Len(hist)
    /\ sleeps = Len(hist) - 1

\* a timeout on an attempt that follows a retried failure
C4_Witness ==
  /\ last.kind = "abort" /\ pc = "done"
  /\ Len(hist) = 2 /\ RetryableFailure(1)

\* C5: a response with a 2xx status finishes the request: it returns or is
\* rejected by validation, and neither a sleep nor a transport call follows.
C5_SuccessStatusFinishes ==
  (last.kind = "response" /\ last.status >= 200 /\ last.status <= 299) =>
    /\ pc = "done"
    /\ calls = Len(hist)
    /\ sleeps = Len(hist) - 1

(***************************************************************************)
(* Properties of the rate-limit path                                       *)
(***************************************************************************)
\* the seconds that the server suggests in the latest response: the
\* Retry-After header as a decimal integer, 10 without a header
SuggestsSeconds == last.header \in {NoHeader, Header(<<"0">>), Header(<<"1">>),
                                    Header(<<"3", "0">>)}

SuggestedSeconds ==
  CASE last.header = NoHeader -> 10
    [] last.header = Header(<<"0">>) -> 0
    [] last.header = Header(<<"1">>) -> 1
    [] last.header = Header(<<"3", "0">>) -> 30

LastIs429 == last.kind = "response" /\ last.status = 429

\* C6 as stated: a terminal error with status 429 is raised only after an
\* earlier 429 of the same request has been retried, whatever failures
\* (429, >= 500, thrown exceptions) preceded it.
C6_RetriedBeforeTerminal ==
  (/\ pc = "done" /\ result.kind = "error" /\ result.status = 429
   /\ \A i \in 1..Len(hist) : RetryableFailure(i)) =>
    \E i \in 1..(Len(hist) - 1) :
      hist[i].kind = "response" /\ hist[i].status = 429

\* C6 amended: a 429 that is the first or second counted failure of the
\* request is followed by a sleep of at least the suggested seconds and
\* then by a transport call; an error with status 429 is raised only for a
\* 429 that is the third counted failure.
C6_RetriedUnlessThirdFailure ==
  /\ [](/\ (LastIs429 /\ Len(hist) < 3) =>
             \/ pc = "sleeping" /\ calls = Len(hist)
             \/ pc = "fetching" /\ calls = Len(hist) + 1
        /\ (LastIs429 /\ Len(hist) < 3 /\ SuggestsSeconds) =>
             lastSleep >= 1000 * SuggestedSeconds
        /\ (pc = "done" /\ result.kind = "error" /\ result.status = 429) =>
             Len(hist) = 3 /\ attempt = 3 /\ LastIs429)
  /\ [][pc = "sleeping" => pc' = "fetching" /\ calls' = calls + 1]_vars

\* the first 429 of a request arrives as its third failure and is terminal
C6_Witness ==
  /\ pc = "done" /\ result.kind = "error" /\ result.status = 429
  /\ Len(hist) = 3 /\ hist[1].status # 429 /\ hist[2].status # 429

\* C7: the sleep after a 429 below the ceiling is the larger of 1000 times
\* the Retry-After seconds (10 without a header) and the exponential
\* backoff of the attempt: at least 30000 ms for Retry-After: 30, at least
\* 10000 ms without a header.
C7_RateLimitDelay ==
  (pc = "sleeping" /\ LastIs429 /\ SuggestsSeconds) =>
    /\ \E jitter \in 0..999 :
         LET backoff == IF 1000 * 2^attempt + jitter < 30000
                          THEN 1000 * 2^attempt + jitter ELSE 30000
         IN lastSleep = IF 1000 * SuggestedSeconds > backoff
                          THEN 1000 * SuggestedSeconds ELSE backoff
    /\ last.header = Header(<<"3", "0">>) => lastSleep >= 30000
    /\ last.header = NoHeader => lastSleep >= 10000

\* Retry-After: 1 on the second failure: the backoff is the larger delay
C7_Witness ==
  /\ pc = "sleeping" /\ LastIs429 /\ last.header = Header(<<"1">>)
  /\ attempt = 2 /\ lastSleep > 4000

(***************************************************************************)
(* Properties of response validation and of dry-run mode                   *)
(***************************************************************************)
\* the latest transport call answered 2xx with a JSON body that does not
\* fit the schema of the facade method
LastFailsSchema ==
  /\ last.kind = "response"
  /\ last.status >= 200 /\ last.status <= 299
  /\ last.body # NotJson
  /\ ~Validate(OpSchema(op.name), ServerBodies[last.body])

\* C8: a 2xx payload that fails the schema of the facade method raises an
\* error with status 500 and is never retried: no sleep and no transport
\* call follows the validation failure.
C8_SchemaFailureTerminal ==
  /\ LastFailsSchema =>
       /\ pc = "done"
       /\ result.kind = "error"
       /\ result.status = 500
       /\ calls = Len(hist)
       /\ sleeps = Len(hist) - 1
  /\ (/\ op.name \in {"getRaindrop", "addRaindrop", "updateRaindrop"}
      /\ last.kind = "response" /\ last.status = 200 /\ last.body # NotJson
      /\ Get(ServerBodies[last.body], "item") = RaindropWithoutTags) =>
       pc = "done" /\ result.kind = "error" /\ result.status = 500

\* a raindrop without tags is rejected on the second attempt of getRaindrop
C8_Witness ==
  /\ LastFailsSchema /\ op.name = "getRaindrop"
  /\ Get(ServerBodies[last.body], "item") = RaindropWithoutTags
  /\ Len(hist) = 2 /\ pc = "done" /\ result.status = 500

\* the methods that send POST, PUT or DELETE
SendsMutatingVerb ==
  op.name \in {"createCollection", "updateCollection", "deleteCollection",
               "deleteCollections", "reorderCollections",
               "expandAllCollections", "mergeCollections",
               "cleanEmptyCollections", "emptyTrash", "deleteTags",
               "renameTag", "addRaindrop", "updateRaindrop", "deleteRaindrop",
               "batchUpdateRaindrops", "batchDeleteRaindrops"}

SendsGet ==
  op.name \in {"getUser", "getStats", "getCollections", "getRootCollections",
               "getChildCollections", "getCollection", "searchCovers",
               "getTags", "getRaindrop", "getSuggestions"}

\* C9: in dry-run mode a POST, PUT or DELETE operation makes no transport
\* call and returns a value; a GET operation makes a real transport call
\* and logs no dry-run line.
C9_DryRunPurity ==
  /\ (dryRun /\ SendsMutatingVerb) =>
       pc = "done" /\ calls = 0 /\ sleeps = 0 /\ result.kind = "ok"
  /\ (dryRun /\ SendsGet) =>
       /\ calls >= 1
       /\ \A i \in 1..Len(logs) : logs[i].level # "log"
  /\ (dryRun /\ SendsGet /\ pc = "done" /\ Len(hist) = 1) => calls = 1

\* renameTag (PUT) is intercepted
C9_Witness ==
  /\ dryRun /\ op.name = "renameTag" /\ pc = "done"
  /\ calls = 0 /\ result.kind = "ok" /\ Len(logs) >= 1

\* C10: in dry-run mode every mutating facade method completes without
\* raising; addRaindrop, updateRaindrop and createCollection return a
\* placeholder with _id 0, the delete-style methods return true.
C10_DryRunEnvelopeFits ==
  (dryRun /\ SendsMutatingVerb /\ pc = "done") =>
    /\ result.kind = "ok"
    /\ op.name \in {"addRaindrop", "updateRaindrop", "createCollection"} =>
         Get(result.value, "_id") = JNum(0)
    /\ op.name \in {"addRaindrop", "updateRaindrop"} =>
         Get(result.value, "tags") = JArr(<<>>)
    /\ op.name \in {"deleteCollection", "deleteCollections", "emptyTrash",
                    "deleteTags", "deleteRaindrop", "batchDeleteRaindrops"} =>
         result.value = JBool(TRUE)

\* updateRaindrop returns the placeholder raindrop
C10_Witness ==
  /\ dryRun /\ op.name = "updateRaindrop" /\ pc = "done"
  /\ result.kind = "ok" /\ Get(result.value, "_id") = JNum(0)

(***************************************************************************)
(* The facade methods that call fetch themselves: uploadCollectionCover    *)
(* and checkWayback                                                        *)
(***************************************************************************)
P_cover == <<"/", "c", "o", "v", "e", "r">>

\* an error that is not a RaindropError: it has no statusCode
PlainError(name) == [kind |-> "error", name |-> name]

\* what uploadCollectionCover returns in dry-run mode
DryRunIcon(id) ==
  JObj(("_id" :> JNum(id)) @@ ("title" :> JStr("Dry Run Icon")) @@
       ("count" :> JNum(0)))

\* the lines logged by uploadCollectionCover in dry-run mode
DryRunUploadLog(id) ==
  <<[level |-> "log", tag |-> "[DRY RUN]", method |-> "PUT",
     path |-> P_collection_ \o NumStr(id) \o P_cover],
    [level |-> "log", tag |-> "File", method |-> "PUT",
     path |-> P_collection_ \o NumStr(id) \o P_cover]>>

\* variant: the upload goes through the dry-run flag
UploadIntercepted_Never == FALSE

\* the test of `if (this.dryRun)` in uploadCollectionCover
UploadIntercepted == dryRun

\* uploadCollectionCover(id, filePath) is called; readable tells whether
\* readFile(filePath) resolves
UploadCollectionCover(id, readable) ==
  /\ pc = "idle"
  /\ op' = [name |-> "uploadCollectionCover", id |-> id]
  /\ IF UploadIntercepted
       THEN /\ logs' = logs \o DryRunUploadLog(id)
            /\ pc' = "done"
            /\ result' = Returned(DryRunIcon(id))
            /\ UNCHANGED calls
     ELSE IF ~readable
       THEN /\ pc' = "done"
            /\ result' = PlainError("SystemError")
            /\ UNCHANGED <<calls, logs>>
     ELSE /\ pc' = "uploading"
          /\ calls' = calls + 1
          /\ UNCHANGED <<result, logs>>
  /\ UNCHANGED <<dryRun, attempt, guard, sleeps, lastSleep, hist, last,
                 searchVars, otherVars>>

\* new RaindropError(`Upload failed: ${response.status}`, response.status)
UploadFailed(status) ==
  RaindropError(<<"Upload failed: ", ToString(status)>>, status, NoHint)

\* the fetch of uploadCollectionCover resolves with a response
UploadResponds(status, body) ==
  /\ pc = "uploading"
  /\ body # NotJson => ResponseOk(status)
  /\ last' = [kind |-> "response", status |-> status, header |-> NoHeader,
              body |-> body]
  /\ hist' = Append(hist, [kind |-> "response", status |-> status,
                            json |-> body # NotJson])
  /\ pc' = "done"
  /\ result' =
       IF ~ResponseOk(status) THEN UploadFailed(status)
       ELSE IF body = NotJson THEN PlainError("SyntaxError")
       ELSE LET parsed == parseResponse(CollectionResponseSchema,
                                        ServerBodies[body],
                                        "uploadCollectionCover")
            IN IF parsed.kind = "error" THEN parsed
               ELSE Returned(Get(parsed.value, "item"))
  /\ UNCHANGED <<dryRun, op, attempt, guard, calls, sleeps, lastSleep, logs,
                 searchVars, otherVars>>

\* the fetch of uploadCollectionCover rejects
UploadThrows ==
  /\ pc = "uploading"
  /\ last' = [kind |-> "throw", status |-> 0, header |-> NoHeader,
              body |-> NotJson]
  /\ hist' = Append(hist, [kind |-> "throw", status |-> 0, json |-> FALSE])
  /\ pc' = "done"
  /\ result' = PlainError("TypeError")
  /\ UNCHANGED <<dryRun, op, attempt, guard, calls, sleeps, lastSleep, logs,
                 searchVars, otherVars>>

\* JSON bodies that the archive service can answer
Snapshot(closest) == JObj("archived_snapshots" :> closest)

WaybackBodies == <<
  Snapshot(JObj("closest" :> JObj(("url" :> JStr("w")) @@
                                  ("available" :> JBool(TRUE))))),
  Snapshot(JObj("closest" :> JObj("available" :> JBool(FALSE)))),
  Snapshot(JObj("closest" :> JObj("url" :> JNull))),
  Snapshot(EmptyObj),
  Snapshot(JNull),
  EmptyObj,
  JNum(1),
  JNull
>>

\* x?.key
OptGet(v, key) == IF v.t \in {"null", "undef"} THEN JUndef ELSE Get(v, key)

\* variant: the url is read without the fallback to null
Closest_NoFallback(data) ==
  OptGet(OptGet(Get(data, "archived_snapshots"), "closest"), "url")

\* data.archived_snapshots?.closest?.url ?? null, inside try {} catch {}:
\* reading a property of null throws, and the catch block falls through to
\* `return null`
Closest(data) ==
  LET url == OptGet(OptGet(Get(data, "archived_snapshots"), "closest"), "url")
  IN IF data.t = "null" \/ url.t \in {"null", "undef"} THEN JNull ELSE url

\* checkWayback(url) is called
CheckWayback ==
  /\ pc = "idle"
  /\ op' = [name |-> "checkWayback", id |-> 0]
  /\ pc' = "archive"
  /\ calls' = calls + 1
  /\ UNCHANGED <<dryRun, attempt, guard, sleeps, lastSleep, hist, last,
                 result, logs, searchVars, otherVars>>

\* the fetch of checkWayback resolves with a response
WaybackResponds(status, body) ==
  /\ pc = "archive"
  /\ body # NotJson => ResponseOk(status)
  /\ last' = [kind |-> "response", status |-> status, header |-> NoHeader,
              body |-> body]
  /\ hist' = Append(hist, [kind |-> "response", status |-> status,
                            json |-> body # NotJson])
  /\ pc' = "done"
  /\ result' = IF ResponseOk(status) /\ body # NotJson
                 THEN Returned(Closest(WaybackBodies[body]))
                 ELSE Returned(JNull)
  /\ UNCHANGED <<dryRun, op, attempt, guard, calls, sleeps, lastSleep, logs,
                 searchVars, otherVars>>

\* the fetch of checkWayback rejects
WaybackThrows ==
  /\ pc = "archive"
  /\ last' = [kind |-> "throw", status |-> 0, header |-> NoHeader,
              body |-> NotJson]
  /\ hist' = Append(hist, [kind |-> "throw", status |-> 0, json |-> FALSE])
  /\ pc' = "done"
  /\ result' = Returned(JNull)
  /\ UNCHANGED <<dryRun, op, attempt, guard, calls, sleeps, lastSleep, logs,
                 searchVars, otherVars>>

\* the statuses answered to these calls
DirectStatuses == Statuses \cup {201, 204, 403, 502}

NextDirect ==
  \/ \E id \in Ids, readable \in BOOLEAN : UploadCollectionCover(id, readable)
  \/ \E status \in DirectStatuses, body \in Bodies :
       UploadResponds(status, body)
  \/ UploadThrows
  \/ CheckWayback
  \/ \E status \in DirectStatuses, body \in 0..Len(WaybackBodies) :
       WaybackResponds(status, body)
  \/ WaybackThrows

SpecDirect == Init /\ [][NextDirect]_vars

(***************************************************************************)
(* safeParse of the entity schemas on payloads with one optional field     *)
(* omitted, null or present                                                *)
(***************************************************************************)
EntitySchemas == {"User", "Collection", "Raindrop", "Tag"}

SchemaOf(name) ==
  CASE name = "User" -> RaindropUserSchema
    [] name = "Collection" -> CollectionSchema
    [] name = "Raindrop" -> RaindropSchema
    [] name = "Tag" -> TagSchema

\* the keys declared with .optional()
OptionalFields(schema) ==
  {key \in DOMAIN schema.shape : schema.shape[key].k = "optional"}

\* a value that fits the schema, with the required keys only
RECURSIVE Sample(_)
Sample(schema) ==
  CASE schema.k = "number" -> JNum(1)
    [] schema.k = "string" -> JStr("s")
    [] schema.k = "boolean" -> JBool(TRUE)
    [] schema.k = "enum" -> JStr(CHOOSE x \in schema.vals : TRUE)
    [] schema.k = "array" -> JArr(<<Sample(schema.of)>>)
    [] schema.k = "object" ->
         JObj([key \in DOMAIN schema.shape \ OptionalFields(schema) |->
                 Sample(schema.shape[key])])
    [] schema.k = "optional" -> Sample(schema.of)

FieldVariants == {"omitted", "null", "present"}

\* the payload of an entity whose optional field is omitted, null or present
Payload(schema, field, variant) ==
  LET base == Sample(schema).o
  IN CASE variant = "omitted" -> JObj(base)
       [] variant = "null" -> JObj((field :> JNull) @@ base)
       [] variant = "present" ->
            JObj((field :> Sample(schema.shape[field])) @@ base)

SchemaInputs ==
  {[fn |-> "safeParse", schema |-> name, field |-> f, variant |-> v] :
     name \in EntitySchemas, f \in UNION {OptionalFields(SchemaOf(n)) :
                                            n \in EntitySchemas},
     v \in FieldVariants}

\* schema.safeParse(data)
safeParse(schema, data) ==
  [fn |-> "safeParse", success |-> Validate(schema, data),
   data |-> IF Validate(schema, data) THEN ParsedData(schema, data)
            ELSE JUndef]

InitSchemas ==
  /\ dryRun = FALSE
  /\ token = SomeToken
  /\ InitCall
  /\ tasks = <<>>
  /\ InitCommand
  /\ output = NoOutput
  /\ input \in {i \in SchemaInputs :
                  i.field \in OptionalFields(SchemaOf(i.schema))}

\* the schema is applied to the payload
SafeParse ==
  /\ input.fn = "safeParse"
  /\ output = NoOutput
  /\ output' = safeParse(SchemaOf(input.schema),
                         Payload(SchemaOf(input.schema), input.field,
                                 input.variant))
  /\ UNCHANGED <<dryRun, op, pc, attempt, guard, calls, sleeps, lastSleep,
                 hist, last, result, logs, searchVars, token, input, tasks,
                 cmdVars>>

NextSchemas == SafeParse

SpecSchemas == InitSchemas /\ [][NextSchemas]_vars

(***************************************************************************)
(* calculateBackoff applied to attempt numbers and configurations          *)
(***************************************************************************)
MaxBackoffAttempt == 5

\* baseMs and maxMs: the defaults, and smaller and larger ones
BackoffBases == {1, 500, BackoffBaseMs}
BackoffMaxes == {BackoffBaseMs, BackoffMaxMs, 4 * BackoffMaxMs}

\* Math.random() * 1000 at the ends of its range and inside it
BackoffJitters == JitterValues \cup {1, JitterRangeMs \div 2}

BackoffInputs ==
  {[fn |-> "calculateBackoff", attempt |-> n, baseMs |-> b, maxMs |-> m] :
     n \in 1..MaxBackoffAttempt, b \in BackoffBases, m \in BackoffMaxes}

InitBackoff ==
  /\ dryRun = FALSE
  /\ token = SomeToken
  /\ InitCall
  /\ tasks = <<>>
  /\ InitCommand
  /\ output = NoOutput
  /\ input \in BackoffInputs

\* calculateBackoff(attempt, baseMs, maxMs) is called and Math.random()
\* gives jitter
CalculateBackoff(jitter) ==
  /\ input.fn = "calculateBackoff"
  /\ output = NoOutput
  /\ output' = [fn |-> "calculateBackoff", jitter |-> jitter,
                value |-> calculateBackoff(input.attempt, input.baseMs,
                                           input.maxMs, jitter)]
  /\ UNCHANGED <<dryRun, op, pc, attempt, guard, calls, sleeps, lastSleep,
                 hist, last, result, logs, searchVars, token, input, tasks,
                 cmdVars>>

NextBackoff == \E jitter \in BackoffJitters : CalculateBackoff(jitter)

SpecBackoff == InitBackoff /\ [][NextBackoff]_vars

(***************************************************************************)
(* Several facade calls running concurrently on one client instance, as in *)
(* Promise.all([api.getUser(), api.getStats(), api.getCollections()]).     *)
(* Each invocation of request() has its own locals attempt, controller and *)
(* timeoutId; the steps of the invocations interleave at their awaits.     *)
(* The lines written to the logger are left out.                           *)
(***************************************************************************)
MaxTasks == 2

\* the calls issued together
TaskCalls == <<[name |-> "getUser", id |-> 0], [name |-> "getStats", id |-> 0],
               [name |-> "getCollections", id |-> 0]>>

Tasks == 1..MaxTasks

IdleTask(c) ==
  [op |-> c, pc |-> "idle", attempt |-> 0, guard |-> FALSE, calls |-> 0,
   sleeps |-> 0, hist |-> <<>>, result |-> NoResult]

\* the responses answered to these calls: a user, a list without items,
\* not found, a server error
TaskResponses ==
  {[status |-> 200, body |-> 3], [status |-> 200, body |-> 7],
   [status |-> 404, body |-> NotJson], [status |-> 500, body |-> NotJson]}

InitConcurrent ==
  /\ dryRun \in BOOLEAN
  /\ token = SomeToken
  /\ InitCall
  /\ input = NoInput
  /\ output = NoOutput
  /\ InitCommand
  /\ tasks = [k \in Tasks |-> IdleTask(TaskCalls[k])]

\* variant: attempt is a field of the instance, shared by the invocations
Store_SharedAttempt(k, t) ==
  tasks' = [j \in Tasks |->
              IF j = k THEN t ELSE [tasks[j] EXCEPT !.attempt = t.attempt]]

\* invocation k writes its locals
Store(k, t) == tasks' = [tasks EXCEPT ![k] = t]

\* the head of the retry loop in invocation t
TaskEnterLoop(t) ==
  IF LoopContinues(t.attempt)
    THEN [t EXCEPT !.pc = "fetching", !.guard = TRUE, !.calls = @ + 1]
    ELSE [t EXCEPT !.pc = "done", !.result = MaxRetriesError]

\* a retryable failure in invocation t
TaskRetryOrRaise(t, entry, err) ==
  LET n == t.attempt + 1
      failed == [t EXCEPT !.hist = Append(@, entry), !.guard = FALSE,
                          !.attempt = n]
  IN IF CeilingReached(n)
       THEN [failed EXCEPT !.pc = "done", !.result = err]
       ELSE [failed EXCEPT !.pc = "sleeping", !.sleeps = @ + 1]

\* invocation t ends with a value or an error
TaskEnds(t, entry, res) ==
  [t EXCEPT !.hist = Append(@, entry), !.guard = FALSE, !.pc = "done",
            !.result = res]

\* facade call k is made
TaskCall(k) ==
  /\ tasks[k].pc = "idle"
  /\ LET t == tasks[k]
         c == t.op
     IN IF dryRun /\ IsMutating(OpMethod(c.name))
          THEN Store(k, [t EXCEPT !.pc = "done",
                                  !.result = Facade(c.name,
                                    getDryRunResponse(OpMethod(c.name),
                                                      OpPath(c.name, c.id)))])
          ELSE Store(k, TaskEnterLoop([t EXCEPT !.attempt = 0]))
  /\ UNCHANGED <<dryRun, op, pc, attempt, guard, calls, sleeps, lastSleep,
                 hist, last, result, logs, searchVars, token, input, output,
                 cmdVars>>

\* the fetch of invocation k resolves with a response
TaskFetchResponds(k, r) ==
  /\ tasks[k].pc = "fetching"
  /\ LET t == tasks[k]
         entry == [kind |-> "response", status |-> r.status,
                   json |-> r.body # NotJson, body |-> r.body]
     IN IF r.status = 429
          THEN Store(k, TaskRetryOrRaise(t, entry, RateLimitError))
        ELSE IF r.status >= 500
          THEN Store(k, TaskRetryOrRaise(t, entry, ServerError(r.status)))
        ELSE IF ~ResponseOk(r.status)
          THEN Store(k, TaskEnds(t, entry, ApiError(r.status)))
        ELSE IF r.body = NotJson
          THEN Store(k, TaskRetryOrRaise(t, entry, NetworkError))
        ELSE Store(k, TaskEnds(t, entry,
                               Facade(t.op.name, ServerBodies[r.body])))
  /\ UNCHANGED <<dryRun, op, pc, attempt, guard, calls, sleeps, lastSleep,
                 hist, last, result, logs, searchVars, token, input, output,
                 cmdVars>>

\* the fetch of invocation k rejects with an error other than AbortError
TaskFetchThrows(k) ==
  /\ tasks[k].pc = "fetching"
  /\ Store(k, TaskRetryOrRaise(tasks[k],
                               [kind |-> "throw", status |-> 0, json |-> FALSE,
                                body |-> NotJson],
                               NetworkError))
  /\ UNCHANGED <<dryRun, op, pc, attempt, guard, calls, sleeps, lastSleep,
                 hist, last, result, logs, searchVars, token, input, output,
                 cmdVars>>

\* the timer of invocation k fires
TaskTimeoutFires(k) ==
  /\ tasks[k].pc = "fetching"
  /\ tasks[k].guard
  /\ Store(k, TaskEnds(tasks[k],
                       [kind |-> "abort", status |-> 0, json |-> FALSE,
                        body |-> NotJson],
                       TimeoutError))
  /\ UNCHANGED <<dryRun, op, pc, attempt, guard, calls, sleeps, lastSleep,
                 hist, last, result, logs, searchVars, token, input, output,
                 cmdVars>>

\* delay(backoff) of invocation k resolves
TaskSleepEnds(k) ==
  /\ tasks[k].pc = "sleeping"
  /\ Store(k, TaskEnterLoop(tasks[k]))
  /\ UNCHANGED <<dryRun, op, pc, attempt, guard, calls, sleeps, lastSleep,
                 hist, last, result, logs, searchVars, token, input, output,
                 cmdVars>>

NextConcurrent ==
  \/ \E k \in Tasks : TaskCall(k)
  \/ \E k \in Tasks, r \in TaskResponses : TaskFetchResponds(k, r)
  \/ \E k \in Tasks : TaskFetchThrows(k)
  \/ \E k \in Tasks : TaskTimeoutFires(k)
  \/ \E k \in Tasks : TaskSleepEnds(k)

SpecConcurrent == InitConcurrent /\ [][NextConcurrent]_vars

\* the call in progress is search()
IsSearch == op.name = "search"

\* search() has returned its items
SearchReturned == IsSearch /\ pc = "done" /\ result.kind = "ok"

\* the number of items in the first k pages received
RECURSIVE ItemsUpTo(_)
ItemsUpTo(k) == IF k = 0 THEN 0 ELSE ItemsUpTo(k - 1) + Len(pages[k])

\* C11: search never holds or returns more than limit items, every page
\* request after the first was issued while the pages received before it
\* held fewer than limit items in all, and a first page that holds at least
\* limit items ends the search after that one request with exactly the
\* first limit items of that page
C11_LimitRespected ==
  IsSearch =>
    /\ Len(allItems) <= op.limit
    /\ Len(allItems) >= op.limit => pc = "done"
    /\ \A k \in 1..(Len(reqs) - 1) : ItemsUpTo(k) < op.limit
    /\ SearchReturned => Len(result.value.a) <= op.limit
    /\ (Len(pages) >= 1 /\ Len(pages[1]) >= op.limit) =>
         /\ pc = "done"
         /\ Len(reqs) = 1
         /\ calls = Len(hist)
         /\ result = Returned(JArr(SubSeq(pages[1], 1, op.limit)))

\* limit 5 and a first page of 50 items: one page request, 5 items returned
C11_Witness ==
  /\ SearchReturned
  /\ op.limit = 5
  /\ Len(pages) = 1
  /\ Len(pages[1]) = PageSizeCap
  /\ Len(reqs) = 1
  /\ result.value.a = [i \in 1..5 |-> PageItem(0, i)]

\* C12: once search has received a page that is empty or holds fewer items
\* than min(limit, 50), that page is the last one requested: the search has
\* returned the items accumulated so far, however few
C12_ShortPageEndsSearch ==
  IsSearch =>
    \A k \in 1..Len(pages) :
      Len(pages[k]) < PerPage(op.limit) =>
        /\ k = Len(pages)
        /\ Len(reqs) = k
        /\ pc = "done"
        /\ result = Returned(JArr(allItems))
        /\ Len(allItems) = Min(ItemsUpTo(k), op.limit)

\* page size 50, a page of 12 items and a limit above 12
C12_Witness ==
  /\ SearchReturned
  /\ op.limit > PageSizeCap
  /\ PerPage(op.limit) = PageSizeCap
  /\ Len(pages) = 1
  /\ Len(pages[1]) = 12
  /\ Len(result.value.a) = 12
\* the call in progress is checkWayback() / uploadCollectionCover()
IsWayback == op.name = "checkWayback"
IsUpload == op.name = "uploadCollectionCover"

\* the archive service answered without a closest snapshot URL
LacksClosestUrl ==
  /\ last.kind = "response"
  /\ last.body # NotJson =>
       Get(Get(Get(WaybackBodies[last.body], "archived_snapshots"),
               "closest"), "url").t \in {"undef", "null"}

\* C13: checkWayback never raises and makes one fetch call, with no sleep
\* and no second call; when the fetch throws, the status is not 2xx or the
\* response has no closest snapshot URL, it returns null
C13_WaybackNeverRaises ==
  IsWayback =>
    /\ result.kind # "error"
    /\ calls = 1
    /\ sleeps = 0
    /\ pc = "done" =>
         /\ result.kind = "ok"
         /\ Len(hist) = 1
         /\ (last.kind = "throw" \/ ~ResponseOk(last.status) \/ LacksClosestUrl)
              => result.value = JNull

\* the fetch of checkWayback threw and null was returned
C13_Witness ==
  /\ IsWayback
  /\ pc = "done"
  /\ last.kind = "throw"
  /\ calls = 1
  /\ result = Returned(JNull)

\* the upload got a response whose status is not 2xx
UploadRefused ==
  IsUpload /\ pc = "done" /\ last.kind = "response" /\ ~ResponseOk(last.status)

\* C15 as claimed: in dry-run mode uploadCollectionCover makes no fetch call
\* and returns a placeholder with the requested id; with dry-run off it has
\* made exactly one fetch call when it ends, and a status that is not 2xx
\* raises an error with that status after that one call
C15_UploadOneCall ==
  IsUpload =>
    /\ dryRun => /\ calls = 0
                 /\ pc = "done"
                 /\ result.kind = "ok"
                 /\ Get(result.value, "_id") = JNum(op.id)
    /\ (~dryRun /\ pc = "done") => calls = 1
    /\ UploadRefused => /\ result.kind = "error"
                        /\ result.status = last.status
                        /\ calls = 1
                        /\ sleeps = 0

\* C15 amended: with dry-run off uploadCollectionCover makes exactly one
\* fetch call once readFile has resolved, and none when readFile rejects,
\* whose error it lets propagate
C15_UploadOneCallOnceRead ==
  IsUpload =>
    /\ dryRun => /\ calls = 0
                 /\ pc = "done"
                 /\ result.kind = "ok"
                 /\ Get(result.value, "_id") = JNum(op.id)
    /\ (~dryRun /\ pc = "done") =>
         \/ calls = 1 /\ Len(hist) = 1
         \/ calls = 0 /\ hist = <<>> /\ result = PlainError("SystemError")
    /\ (~dryRun /\ pc = "uploading") => calls = 1 /\ hist = <<>>
    /\ UploadRefused => /\ result.kind = "error"
                        /\ result.status = last.status
                        /\ calls = 1
                        /\ sleeps = 0

\* the upload was answered 429 and raised status 429 after one call
C15_Witness ==
  /\ UploadRefused
  /\ ~dryRun
  /\ last.status = 429
  /\ result.status = 429
  /\ calls = 1

\* C16: every error that a facade method other than checkWayback lets
\* propagate carries a numeric status code
C16_ErrorsCarryStatus ==
  (~IsWayback /\ result.kind = "error") =>
    /\ "status" \in DOMAIN result
    /\ result.status \in 100..599
\* C14: a payload that carries an optional field as null validates, and
\* decodes to the same data as the payload that omits the field
C14_NullAsOmitted ==
  (output.fn = "safeParse" /\ input.variant = "null") =>
    LET schema == SchemaOf(input.schema)
        omitted == safeParse(schema, Payload(schema, input.field, "omitted"))
    IN /\ omitted.success
       /\ output.success
       /\ output.data = omitted.data
\* C17: for attempt n >= 1 and a configuration (base, max) the delay is
\* min(base * 2^n + jitter, max) with 0 <= jitter < 1000: it is never
\* negative and never above max, and it lies in
\* [base * 2^n, base * 2^n + 1000] whenever base * 2^n + 1000 <= max
C17_BackoffRange ==
  output.fn = "calculateBackoff" =>
    LET lo == input.baseMs * Pow2(input.attempt)
    IN /\ output.jitter >= 0 /\ output.jitter < JitterRangeMs
       /\ output.value >= 0
       /\ output.value <= input.maxMs
       /\ lo + JitterRangeMs <= input.maxMs =>
            /\ output.value >= lo
            /\ output.value <= lo + JitterRangeMs
            /\ output.value = lo + output.jitter
       /\ lo >= input.maxMs => output.value = input.maxMs

\* the default configuration at attempt 5: 32000 ms and more, capped
C17_Witness ==
  /\ output.fn = "calculateBackoff"
  /\ input.attempt = 5
  /\ input.baseMs = BackoffBaseMs
  /\ input.maxMs = BackoffMaxMs
  /\ output.value = BackoffMaxMs
\* the failures in a history that request() counts
CountedFailures(h) ==
  Cardinality({i \in 1..Len(h) :
    \/ h[i].kind = "throw"
    \/ h[i].kind = "response" /\ (h[i].status = 429 \/ h[i].status >= 500)})

\* what call c returns or raises when the last of its own fetch outcomes
\* is e
AloneResult(c, e) ==
  IF e.kind = "abort" THEN TimeoutError
  ELSE IF e.kind = "throw" THEN NetworkError
  ELSE IF e.status = 429 THEN RateLimitError
  ELSE IF e.status >= 500 THEN ServerError(e.status)
  ELSE IF ~ResponseOk(e.status) THEN ApiError(e.status)
  ELSE Facade(c.name, ServerBodies[e.body])

\* every invocation counts its own failures only, makes at most three fetch
\* calls, is raised at its own third failure, and ends with the result of
\* its own last outcome
OwnCounters ==
  \A k \in DOMAIN tasks :
    LET t == tasks[k]
    IN /\ t.attempt = CountedFailures(t.hist)
       /\ t.calls <= MAX_RETRIES
       /\ t.sleeps <= t.attempt
       /\ t.pc \in {"fetching", "sleeping"} => t.attempt < MAX_RETRIES
       /\ t.pc = "fetching" => t.guard /\ t.calls = Len(t.hist) + 1
       /\ (t.pc = "done" /\ t.hist # <<>>) =>
            /\ t.calls = Len(t.hist)
            /\ t.result = AloneResult(t.op, t.hist[Len(t.hist)])

\* a step changes the locals of one invocation at most, and never the
\* token or the dry-run flag
OneAtATime ==
  /\ dryRun' = dryRun
  /\ token' = token
  /\ \A j, k \in DOMAIN tasks :
       (tasks'[j] # tasks[j] /\ tasks'[k] # tasks[k]) => j = k

\* C18: calls running concurrently on one client each keep their own
\* attempt counter and timeout guard: under every interleaving a call is
\* allowed three attempts of its own and ends with the result of its own
\* outcomes, and no step touches the token, the dry-run flag or the locals
\* of another call
C18_CallsIndependent == []OwnCounters /\ [][OneAtATime]_vars

\* the first call was raised at its third failure while the second one,
\* after two failures of its own, returned on its third attempt
C18_Witness ==
  /\ tasks # <<>>
  /\ tasks[1].pc = "done"
  /\ tasks[1].result.kind = "error"
  /\ tasks[1].calls = MAX_RETRIES
  /\ tasks[2].pc = "done"
  /\ tasks[2].result.kind = "ok"
  /\ tasks[2].calls = MAX_RETRIES
  /\ tasks[2].attempt = MAX_RETRIES - 1
\* the facade methods that return one raindrop
ReturnsRaindrop == op.name \in {"getRaindrop", "addRaindrop", "updateRaindrop"}

\* v has a tags sequence of strings
HasTags(v) ==
  /\ Get(v, "tags").t = "arr"
  /\ \A j \in 1..Len(Get(v, "tags").a) : Get(v, "tags").a[j].t = "str"

\* the raindrop that the server sent under an identifier
ServerItem(id) ==
  IF id = Get(SomeRaindrop, "_id").n THEN SomeRaindrop
  ELSE PageItem(id \div 1000, id % 1000)

\* the latest response is a 2xx payload whose raindrop has no tags field
PayloadLacksTags ==
  /\ last.kind = "response"
  /\ ResponseOk(last.status)
  /\ \/ ReturnsRaindrop /\ last.body = 6
     \/ IsSearch /\ last.body = 16

\* C19: every raindrop that search, getRaindrop, addRaindrop or
\* updateRaindrop returns, the dry-run placeholder included, has a tags
\* sequence of strings, equal to the sequence that the server sent; a
\* payload whose raindrop has no tags field ends the call with an error
C19_RaindropsHaveTags ==
  /\ (ReturnsRaindrop /\ pc = "done" /\ result.kind = "ok") =>
       /\ HasTags(result.value)
       /\ last.kind = "response" =>
            Get(result.value, "tags") =
              Get(Get(ServerBodies[last.body], "item"), "tags")
  /\ SearchReturned =>
       \A i \in 1..Len(result.value.a) :
         /\ HasTags(result.value.a[i])
         /\ Get(result.value.a[i], "tags") =
              Get(ServerItem(Get(result.value.a[i], "_id").n), "tags")
  /\ PayloadLacksTags =>
       /\ pc = "done"
       /\ result.kind = "error"
       /\ result.status = 500

\* a search returned ten raindrops with their tags in the order sent
C19_Witness ==
  /\ SearchReturned
  /\ Len(result.value.a) = 10
  /\ Get(result.value.a[10], "tags") = JArr(<<JStr("b"), JStr("a")>>)

\* the request ended on a response with status 401, 404 or 400
LastHasHint ==
  pc = "done" /\ last.kind = "response" /\ last.status \in {400, 401, 404}

\* C20: the error raised for status 401 carries the hint to log in again,
\* the one for 404 the hint to verify the ID, the one for 400 the hint to
\* check the input parameters, whatever the facade method; the error keeps
\* the status of the response and the message built from it
C20_HintByStatus ==
  LastHasHint =>
    /\ result.kind = "error"
    /\ result.status = last.status
    /\ result.msg = <<"API Error ", ToString(last.status), ": ", "errorDetail">>
    /\ last.status = 401 =>
         result.hint = "Authentication failed. Try running 'raindrop login' again."
    /\ last.status = 404 =>
         result.hint =
           "The requested resource was not found. Verify the ID is correct."
    /\ last.status = 400 =>
         result.hint = "Invalid request. Check your input parameters."

\* a call answered 401 raised the error with the hint to log in again
C20_Witness ==
  /\ LastHasHint
  /\ last.status = 401
  /\ result.status = 401
  /\ result.hint = "Authentication failed. Try running 'raindrop login' again."

(***************************************************************************)
(* The credential store (src/utils/config.ts): getToken applied to an      *)
(* environment and a configuration file                                    *)
(***************************************************************************)

\* String.prototype.trim
RECURSIVE TrimStart(_)
TrimStart(s) == IF s # <<>> /\ Head(s) = " " THEN TrimStart(Tail(s)) ELSE s

RECURSIVE TrimEnd(_)
TrimEnd(s) ==
  IF s # <<>> /\ s[Len(s)] = " " THEN TrimEnd(SubSeq(s, 1, Len(s) - 1)) ELSE s

Trim(s) == TrimEnd(TrimStart(s))

\* typeof data === "object" && data !== null && typeof data.token === "string"
\* && data.token.length > 0
isValidConfig(data) ==
  /\ data.t \in {"obj", "arr"}
  /\ Get(data, "token").t = "str"
  /\ Len(Get(data, "token").s) > 0

\* the Config read from the file, Absent for null
loadConfigSync(file) ==
  IF ~file.exists THEN Absent
  ELSE IF file.kind = "blank" THEN Absent
  ELSE IF file.kind = "garbage" THEN Absent
  ELSE IF ~isValidConfig(file.data) THEN Absent
  ELSE Present(file.data)

\* config?.token || null
TokenOf(loaded) ==
  IF loaded.set /\ Get(loaded.v, "token").s # <<>>
    THEN Present(Get(loaded.v, "token").s)
    ELSE Absent

\* variant: a RAINDROP_TOKEN of white space only is passed over and the
\* configuration file is read
getToken_BlankFallsThrough(envToken, file) ==
  IF envToken.set /\ envToken.v # <<>> /\ Len(Trim(envToken.v)) # 0
    THEN Present(Trim(envToken.v))
    ELSE TokenOf(loadConfigSync(file))

getToken(envToken, file) ==
  IF envToken.set /\ envToken.v # <<>>
    THEN IF Len(Trim(envToken.v)) = 0 THEN Absent
         ELSE Present(Trim(envToken.v))
    ELSE TokenOf(loadConfigSync(file))

EnvToken == <<"e", "n", "v">>
FileToken == <<"f", "i", "l", "e">>

\* the values of RAINDROP_TOKEN
EnvValues ==
  {Absent, Present(<<>>), Present(<<" ">>), Present(<<" ", " ">>),
   Present(EnvToken), Present(<<" ">> \o EnvToken),
   Present(EnvToken \o <<" ">>), Present(<<" ">> \o EnvToken \o <<" ">>)}

\* the states of the configuration file
ConfigFiles ==
  {NoFile, BlankFile, GarbageFile, JsonFile(JNull), JsonFile(EmptyObj),
   JsonFile(JArr(<<>>)), JsonFile(JObj("token" :> JStr(<<>>))),
   JsonFile(JObj("token" :> JNum(5))),
   JsonFile(JObj("token" :> JStr(FileToken)))}

InitToken ==
  /\ dryRun = FALSE
  /\ token = SomeToken
  /\ InitCall
  /\ input = NoInput
  /\ output = NoOutput
  /\ tasks = <<>>
  /\ env \in EnvValues
  /\ config \in ConfigFiles
  /\ cmd = NoCmd

\* getToken() is called
GetToken ==
  /\ output = NoOutput
  /\ output' = [fn |-> "getToken", value |-> getToken(env, config)]
  /\ UNCHANGED <<dryRun, op, pc, attempt, guard, calls, sleeps, lastSleep,
                 hist, last, result, logs, searchVars, token, input, tasks,
                 cmdVars>>

NextToken == GetToken

SpecToken == InitToken /\ [][NextToken]_vars

\* getToken() has returned
TokenRead == output.fn = "getToken"

\* RAINDROP_TOKEN is set to a text that is not empty
EnvGiven == env.set /\ env.v # <<>>

\* the configuration file holds an object with a token that is a string and
\* is not empty
FileGiven ==
  /\ config.exists
  /\ config.kind = "json"
  /\ config.data.t = "obj"
  /\ "token" \in DOMAIN config.data.o
  /\ config.data.o["token"].t = "str"
  /\ config.data.o["token"].s # <<>>

\* C21 as stated: getToken returns RAINDROP_TOKEN whenever it is set,
\* whatever the configuration file holds, otherwise the token of the
\* configuration file, and the absent value only when neither gives a token
C21_EnvOverridesConfig ==
  TokenRead =>
    /\ EnvGiven => output.value = Present(env.v)
    /\ ~EnvGiven /\ FileGiven =>
         output.value = Present(config.data.o["token"].s)
    /\ ~EnvGiven /\ ~FileGiven => output.value = Absent

\* C21 amended: a RAINDROP_TOKEN that is set and not empty decides alone: it
\* is returned with the white space around it removed, and the absent value
\* is returned when it is white space only, whatever the configuration file
\* holds; otherwise the token of a valid configuration file is returned, and
\* the absent value when there is no valid configuration file
C21_EnvTrimmedOverridesConfig ==
  TokenRead =>
    /\ EnvGiven /\ (\E i \in 1..Len(env.v) : env.v[i] # " ") =>
         /\ output.value.set
         /\ \E i \in 1..Len(env.v) : \E j \in i..Len(env.v) :
              /\ output.value.v = SubSeq(env.v, i, j)
              /\ env.v[i] # " " /\ env.v[j] # " "
              /\ \A k \in 1..Len(env.v) : k < i \/ k > j => env.v[k] = " "
    /\ EnvGiven /\ (\A i \in 1..Len(env.v) : env.v[i] = " ") =>
         output.value = Absent
    /\ ~EnvGiven /\ FileGiven =>
         output.value = Present(config.data.o["token"].s)
    /\ ~EnvGiven /\ ~FileGiven => output.value = Absent

\* a RAINDROP_TOKEN of white space only met a valid configuration file
C21_Witness ==
  /\ TokenRead
  /\ EnvGiven
  /\ \A i \in 1..Len(env.v) : env.v[i] = " "
  /\ FileGiven
  /\ output.value = Absent

(***************************************************************************)
(* cmdLogin (src/commands/auth.ts): the token is verified with getUser     *)
(* and then saved                                                          *)
(***************************************************************************)

BadToken == <<"b", "a", "d">>

\* the token given as argument or typed at the prompt
LoginArgs == {<<>>, SomeToken, BadToken}

InitLogin ==
  /\ dryRun \in BOOLEAN
  /\ token = <<>>
  /\ InitCall
  /\ input = NoInput
  /\ output = NoOutput
  /\ tasks = <<>>
  /\ env \in {Absent, Present(EnvToken)}
  /\ config \in {NoFile, GarbageFile, JsonFile(JObj("token" :> JStr(FileToken)))}
  /\ cmd = NoCmd

\* outputError(message, statusCode): the command ends with the error
Exited(name, status) == [name |-> name, pc |-> "exited", exit |-> status]

\* the file that saveConfig({ token }) writes
SavedConfig(tok) == JsonFile(JObj("token" :> JStr(tok)))

\* cmdLogin up to `await api.getUser()`: `new RaindropAPI(token)` has dry-run
\* off
CmdLogin(arg) ==
  /\ cmd = NoCmd
  /\ pc = "idle"
  /\ IF arg = <<>>
       THEN /\ cmd' = Exited("login", 400)
            /\ UNCHANGED <<dryRun, token, op, pc, attempt, guard, calls,
                           result>>
       ELSE /\ cmd' = [name |-> "login", pc |-> "verifying", exit |-> 0]
            /\ dryRun' = FALSE
            /\ token' = arg
            /\ op' = [name |-> "getUser", id |-> 0]
            /\ attempt' = 0
            /\ EnterLoop(0)
  /\ UNCHANGED <<sleeps, lastSleep, hist, last, logs, searchVars, input,
                 output, tasks, env, config>>

\* variant: the token is saved whatever getUser gave
LoginEnds_SavesAnyway(written) ==
  /\ cmd.name = "login"
  /\ cmd.pc = "verifying"
  /\ pc = "done"
  /\ IF written
       THEN /\ config' = SavedConfig(token)
            /\ cmd' = [cmd EXCEPT !.pc = "done"]
       ELSE /\ cmd' = Exited("login", 500)
            /\ UNCHANGED config
  /\ UNCHANGED <<dryRun, op, pc, attempt, guard, calls, sleeps, lastSleep,
                 hist, last, result, logs, searchVars, token, input, output,
                 tasks, env>>

\* cmdLogin after `await api.getUser()`: an error of getUser leaves the
\* callback and is reported by the command runner, otherwise saveConfig
\* writes the file, or fails before writing it
LoginEnds(written) ==
  /\ cmd.name = "login"
  /\ cmd.pc = "verifying"
  /\ pc = "done"
  /\ IF result.kind = "error"
       THEN /\ cmd' = Exited("login", result.status)
            /\ UNCHANGED config
     ELSE IF written
       THEN /\ config' = SavedConfig(token)
            /\ cmd' = [cmd EXCEPT !.pc = "done"]
       ELSE /\ cmd' = Exited("login", 500)
            /\ UNCHANGED config
  /\ UNCHANGED <<dryRun, op, pc, attempt, guard, calls, sleeps, lastSleep,
                 hist, last, result, logs, searchVars, token, input, output,
                 tasks, env>>

\* the answers of the server to GET /user: a user, or a body of another shape
LoginBodies == {NotJson, 3, 7}

NextLogin ==
  \/ \E arg \in LoginArgs : CmdLogin(arg)
  \/ \E status \in {200, 401, 429, 500}, body \in LoginBodies :
       FetchResponds(status, NoHeader, body, 0)
  \/ FetchThrows(0)
  \/ TimeoutFires
  \/ SleepEnds
  \/ \E written \in BOOLEAN : LoginEnds(written)

SpecLogin == InitLogin /\ [][NextLogin]_vars

\* getUser called with the token of the command has returned a user
TokenVerified ==
  /\ op.name = "getUser"
  /\ pc = "done"
  /\ result.kind = "ok"
  /\ calls >= 1
  /\ last.kind = "response"
  /\ ResponseOk(last.status)

\* C22: cmdLogin changes the configuration file only in the step that follows
\* a getUser call that succeeded with the token given, and then the file
\* holds that token; an empty token or a failed verification leaves the file
\* as it was
C22_SavedOnlyAfterVerified ==
  [][config' # config =>
       /\ cmd.name = "login"
       /\ TokenVerified
       /\ token # <<>>
       /\ config' = SavedConfig(token)]_vars

\* the token given was verified and is now in the file
C22_Witness ==
  /\ cmd.name = "login"
  /\ cmd.pc = "done"
  /\ TokenVerified
  /\ config = SavedConfig(token)

(***************************************************************************)
(* request() under the assumption that every fetch call settles (with a    *)
(* response, a rejection or the abort of the timeout guard) and that every *)
(* backoff sleep ends                                                      *)
(***************************************************************************)

\* `await fetch(...)` settles
TransportEnds ==
  \/ \E status \in Statuses, header \in RetryAfterHeaders, body \in Bodies,
        jitter \in JitterValues : FetchResponds(status, header, body, jitter)
  \/ \E jitter \in JitterValues : FetchThrows(jitter)
  \/ TimeoutFires

SpecFair == Spec /\ WF_vars(TransportEnds) /\ WF_vars(SleepEnds)

\* request() is running: it waits for fetch or for the end of a sleep
Running == pc \in {"fetching", "sleeping"}

\* C23: a request() that was started eventually returns or raises, and it
\* makes at most 3 transport calls and sleeps at most 2 times on the way
C23_RequestTerminates ==
  /\ [](calls <= MAX_RETRIES /\ sleeps <= MAX_RETRIES - 1)
  /\ (Running ~> pc = "done")

\* request() has ended after three transport calls and two sleeps
C23_Witness == pc = "done" /\ calls = MAX_RETRIES /\ sleeps = MAX_RETRIES - 1

\* the items of the first k pages received, in the order received
RECURSIVE PagesUpTo(_)
PagesUpTo(k) == IF k = 0 THEN <<>> ELSE PagesUpTo(k - 1) \o pages[k]

\* C24: in one search the k-th page request carries the offset k - 1 and
\* the page size min(limit, 50), and the items held, which are the items
\* returned, are the pages received put end to end in the order received and
\* cut after limit items
C24_PagesInOrder ==
  IsSearch =>
    /\ \A k \in 1..Len(reqs) :
         /\ reqs[k].page = k - 1
         /\ reqs[k].perpage = Min(op.limit, PageSizeCap)
    /\ LET all == PagesUpTo(Len(pages))
       IN allItems = SubSeq(all, 1, Min(op.limit, Len(all)))
    /\ SearchReturned => result = Returned(JArr(allItems))

\* a search returned after a second page that was cut
C24_Witness ==
  /\ SearchReturned
  /\ Len(reqs) = 2
  /\ Len(pages) = 2
  /\ Len(pages[2]) > 1
  /\ Len(allItems) = op.limit
  /\ ItemsUpTo(2) > op.limit

(***************************************************************************)
(* The dry-run branch of request() applied to a method and a body          *)
(***************************************************************************)

UpperLetters ==
  <<"A", "B", "C", "D", "E", "F", "G", "H", "I", "J", "K", "L", "M", "N",
    "O", "P", "Q", "R", "S", "T", "U", "V", "W", "X", "Y", "Z">>

LowerLetters ==
  <<"a", "b", "c", "d", "e", "f", "g", "h", "i", "j", "k", "l", "m", "n",
    "o", "p", "q", "r", "s", "t", "u", "v", "w", "x", "y", "z">>

LowerChar(ch) ==
  IF \E i \in 1..26 : UpperLetters[i] = ch
    THEN LowerLetters[CHOOSE i \in 1..26 : UpperLetters[i] = ch]
    ELSE ch

\* variant: the key is compared as it is spelt
ToLowerCase_Identity(s) == s

\* String.prototype.toLowerCase
ToLowerCase(s) == [i \in 1..Len(s) |-> LowerChar(s[i])]

K_token == <<"t", "o", "k", "e", "n">>

\* Object.fromEntries(Object.entries(json).filter(([k]) =>
\*   !k.toLowerCase().includes("token"))), an object being the sequence of
\* its entries
Filtered(entries) ==
  SelectSeq(entries, LAMBDA e : ~Includes(ToLowerCase(e.k), K_token))

\* the test of `if (options.json)`
HasJson(json) == json.set

\* the lines logged by the dry-run branch of request()
DryRunLines(method, path, json) ==
  <<[level |-> "log", tag |-> "[DRY RUN]", method |-> method,
     path |-> path]>> \o
  (IF HasJson(json)
     THEN <<[level |-> "log", tag |-> "Payload", view |-> Filtered(json.v)]>>
     ELSE <<>>)

\* the entries a body is made of, in their order; the value under "title"
\* holds a token of its own one level down
BodyEntries ==
  <<[k |-> <<"t", "i", "t", "l", "e">>, v |-> JObj("token" :> JStr("s"))],
    [k |-> K_token, v |-> JStr("a")],
    [k |-> <<"T", "o", "k", "e", "n">>, v |-> JStr("b")],
    [k |-> <<"a", "p", "i", "T", "O", "K", "E", "N", "s">>, v |-> JStr("c")],
    [k |-> <<"t", "o", "k", "e">>, v |-> JNum(1)]>>

\* the bodies: no body, and every selection of the entries (the empty object
\* among them)
RequestBodies ==
  {Absent} \cup
  {Present(SelectSeq(BodyEntries, LAMBDA e : e \in chosen)) :
     chosen \in SUBSET {BodyEntries[i] : i \in 1..Len(BodyEntries)}}

InitDryRun ==
  /\ dryRun \in BOOLEAN
  /\ token = SomeToken
  /\ InitCall
  /\ input \in {[fn |-> "request", method |-> method, path |-> P_raindrop,
                 json |-> json] :
                  method \in {"GET", "POST", "PUT", "DELETE"},
                  json \in RequestBodies}
  /\ output = NoOutput
  /\ tasks = <<>>
  /\ InitCommand

\* request(method, path, { json }) up to its return in dry-run mode, or up
\* to its first fetch call
Request ==
  /\ pc = "idle"
  /\ input.fn = "request"
  /\ IF dryRun /\ IsMutating(input.method)
       THEN /\ logs' = logs \o DryRunLines(input.method, input.path, input.json)
            /\ pc' = "done"
            /\ result' = Returned(getDryRunResponse(input.method, input.path))
            /\ UNCHANGED <<attempt, guard, calls>>
       ELSE /\ attempt' = 0
            /\ EnterLoop(0)
            /\ UNCHANGED logs
  /\ UNCHANGED <<dryRun, op, sleeps, lastSleep, hist, last, searchVars,
                 otherVars>>

NextDryRun == Request

SpecDryRun == InitDryRun /\ [][NextDryRun]_vars

\* the key contains "token" in some mix of upper and lower case
NamesToken(key) ==
  \E i \in 0..(Len(key) - 5) :
    /\ key[i + 1] \in {"t", "T"}
    /\ key[i + 2] \in {"o", "O"}
    /\ key[i + 3] \in {"k", "K"}
    /\ key[i + 4] \in {"e", "E"}
    /\ key[i + 5] \in {"n", "N"}

\* request() was intercepted and has returned
Intercepted ==
  /\ input.fn = "request"
  /\ pc = "done"
  /\ dryRun
  /\ input.method \in {"POST", "PUT", "DELETE"}

\* the view holds exactly the entries of the body whose key does not name a
\* token, each with its value, in the order of the body
ViewOf(view, body) ==
  /\ \A i \in 1..Len(view) :
       /\ ~NamesToken(view[i].k)
       /\ \E j \in 1..Len(body) : body[j] = view[i]
  /\ \A j \in 1..Len(body) :
       ~NamesToken(body[j].k) => \E i \in 1..Len(view) : view[i] = body[j]
  /\ \A i1, i2 \in 1..Len(view) :
       i1 < i2 => \E j1, j2 \in 1..Len(body) :
                    j1 < j2 /\ body[j1] = view[i1] /\ body[j2] = view[i2]

\* C25: an intercepted call has logged, when it returns, a line with its
\* method and path, followed when it has a body by one line with a view of
\* the body that leaves out every top-level entry whose key contains
\* "token" in any case and keeps the other entries as they are; no step
\* changes the body
C25_DryRunLogRedacted ==
  /\ [](Intercepted =>
          /\ Len(logs) = (IF input.json.set THEN 2 ELSE 1)
          /\ logs[1].tag = "[DRY RUN]"
          /\ logs[1].method = input.method
          /\ logs[1].path = input.path
          /\ input.json.set =>
               /\ logs[2].tag = "Payload"
               /\ ViewOf(logs[2].view, input.json.v))
  /\ [][input' = input]_vars

\* an intercepted call logged a view that lacks three entries of its body
C25_Witness ==
  /\ Intercepted
  /\ input.json.set
  /\ Len(input.json.v) = 5
  /\ Len(logs) = 2
  /\ Len(logs[2].view) = 2

(***************************************************************************)
(* The commands that take identifiers (src/commands), each up to the       *)
(* request() call of the facade method it awaits                           *)
(***************************************************************************)

K_ids == <<"i", "d", "s">>
K_to == <<"t", "o">>
K_title == <<"t", "i", "t", "l", "e">>

\* `${id}` for a number that may be NaN
IdText(n) == IF n.nan THEN <<"N", "a", "N">> ELSE NumStr(n.v)

\* s.split(",")
RECURSIVE Split(_)
Split(s) ==
  IF \E i \in 1..Len(s) : s[i] = ","
    THEN LET i == CHOOSE i \in 1..Len(s) :
                    s[i] = "," /\ \A j \in 1..(i - 1) : s[j] # ","
         IN <<SubSeq(s, 1, i - 1)>> \o Split(SubSeq(s, i + 1, Len(s)))
    ELSE <<s>>

\* the texts between the commas, trimmed
IdTexts(s) == [i \in 1..Len(Split(s)) |-> Trim(Split(s)[i])]

\* s.split(",").map((id) => parseInt(id.trim(), 10))
ParseIds(s) == [i \in 1..Len(IdTexts(s)) |-> ParseInt(IdTexts(s)[i])]

\* ids.some(Number.isNaN)
SomeNaN(ids) == \E i \in 1..Len(ids) : ids[i].nan

SingleIdCommands ==
  {"get", "delete", "patch", "suggest", "collection get", "collection update",
   "collection delete"}

\* the commands that take JSON patch data as well
NeedsData == {"patch", "collection update"}

\* the method and path of the facade method a command with one id calls
IdMethod(name) ==
  CASE name \in {"get", "suggest", "collection get"} -> "GET"
    [] name \in {"delete", "collection delete"} -> "DELETE"
    [] name \in {"patch", "collection update"} -> "PUT"

IdPath(name, id) ==
  CASE name \in {"get", "delete", "patch"} -> P_raindrop_ \o IdText(id)
    [] name = "suggest" -> P_raindrop_ \o IdText(id) \o P_suggest
    [] OTHER -> P_collection_ \o IdText(id)

\* outputError(message, statusCode) before any facade call; given holds the
\* identifier texts of the command line
Refuse(name, given, status) ==
  /\ cmd' = [name |-> name, pc |-> "exited", exit |-> status, given |-> given]
  /\ UNCHANGED <<token, input, pc, attempt, guard, calls, result, logs>>

\* getAuthenticatedAPI(options), then the facade method up to its request()
\* call, and request() up to its return in dry-run mode or its first fetch
CallApi(name, given, method, path, json) ==
  LET tok == getToken(env, config)
  IN IF ~tok.set THEN Refuse(name, given, 401)
     ELSE /\ cmd' = [name |-> name, pc |-> "calling", exit |-> 0,
                     given |-> given]
          /\ token' = tok.v
          /\ input' = [fn |-> "request", method |-> method, path |-> path,
                       json |-> json]
          /\ IF dryRun /\ IsMutating(method)
               THEN /\ logs' = logs \o DryRunLines(method, path, json)
                    /\ pc' = "done"
                    /\ result' = Returned(getDryRunResponse(method, path))
                    /\ UNCHANGED <<attempt, guard, calls>>
               ELSE /\ attempt' = 0
                    /\ EnterLoop(0)
                    /\ UNCHANGED logs

\* cmdGet, cmdDelete, cmdPatch, cmdSuggest, cmdCollectionGet,
\* cmdCollectionUpdate, cmdCollectionDelete
CmdWithId(name, idArg, data) ==
  /\ cmd = NoCmd
  /\ pc = "idle"
  /\ LET id == ParseInt(idArg)
     IN IF id.nan THEN Refuse(name, <<idArg>>, 400)
        ELSE IF name \in NeedsData /\ ~data.set
          THEN Refuse(name, <<idArg>>, 400)
        ELSE CallApi(name, <<idArg>>, IdMethod(name), IdPath(name, id),
                     IF name \in NeedsData THEN data ELSE Absent)
  /\ UNCHANGED <<dryRun, op, sleeps, lastSleep, hist, last, searchVars,
                 output, tasks, env, config>>

CmdCollectionDeleteMultiple(idsArg) ==
  /\ cmd = NoCmd
  /\ pc = "idle"
  /\ LET name == "collection delete-multiple"
         ids == ParseIds(idsArg)
     IN IF idsArg = <<>> THEN Refuse(name, <<>>, 400)
        ELSE IF SomeNaN(ids) THEN Refuse(name, IdTexts(idsArg), 400)
        ELSE CallApi(name, IdTexts(idsArg), "DELETE", P_collections,
                     Present(<<[k |-> K_ids, v |-> ids]>>))
  /\ UNCHANGED <<dryRun, op, sleeps, lastSleep, hist, last, searchVars,
                 output, tasks, env, config>>

CmdCollectionMerge(idsArg, targetArg) ==
  /\ cmd = NoCmd
  /\ pc = "idle"
  /\ LET name == "collection merge"
         targetId == ParseInt(targetArg)
         ids == ParseIds(idsArg)
         given == IdTexts(idsArg) \o <<targetArg>>
     IN IF idsArg = <<>> THEN Refuse(name, <<targetArg>>, 400)
        ELSE IF targetId.nan THEN Refuse(name, given, 400)
        ELSE IF SomeNaN(ids) THEN Refuse(name, given, 400)
        ELSE CallApi(name, given, "PUT", P_collections_merge,
                     Present(<<[k |-> K_ids, v |-> ids],
                               [k |-> K_to, v |-> targetId]>>))
  /\ UNCHANGED <<dryRun, op, sleeps, lastSleep, hist, last, searchVars,
                 output, tasks, env, config>>

\* the identifier texts of a batch command line: those of --ids, then the
\* one of --collection
BatchGiven(idsOpt, collOpt) ==
  (IF idsOpt.set THEN IdTexts(idsOpt.v) ELSE <<>>) \o
  (IF collOpt.set THEN <<collOpt.v>> ELSE <<>>)

\* the ids and the collection id that the loop over args leaves
BatchIds(idsOpt) == IF idsOpt.set THEN ParseIds(idsOpt.v) ELSE <<>>
BatchCollection(collOpt) ==
  IF collOpt.set THEN ParseInt(collOpt.v) ELSE [nan |-> FALSE, v |-> 0]

CmdBatchUpdate(idsOpt, collOpt, data) ==
  /\ cmd = NoCmd
  /\ pc = "idle"
  /\ LET name == "batch update"
         ids == BatchIds(idsOpt)
         given == BatchGiven(idsOpt, collOpt)
     IN IF Len(ids) = 0 THEN Refuse(name, given, 400)
        ELSE IF ~data.set THEN Refuse(name, given, 400)
        ELSE CallApi(name, given, "PUT",
                     P_raindrops_ \o IdText(BatchCollection(collOpt)),
                     Present(data.v \o <<[k |-> K_ids, v |-> ids]>>))
  /\ UNCHANGED <<dryRun, op, sleeps, lastSleep, hist, last, searchVars,
                 output, tasks, env, config>>

CmdBatchDelete(idsOpt, collOpt) ==
  /\ cmd = NoCmd
  /\ pc = "idle"
  /\ LET name == "batch delete"
         ids == BatchIds(idsOpt)
         given == BatchGiven(idsOpt, collOpt)
     IN IF Len(ids) = 0 THEN Refuse(name, given, 400)
        ELSE CallApi(name, given, "DELETE",
                     P_raindrops_ \o IdText(BatchCollection(collOpt)),
                     Present(<<[k |-> K_ids, v |-> ids]>>))
  /\ UNCHANGED <<dryRun, op, sleeps, lastSleep, hist, last, searchVars,
                 output, tasks, env, config>>

\* the texts given where one identifier is expected
IdArgs == {<<"7">>, <<"x">>, <<>>}

\* the texts given where a list of identifiers is expected
IdsArgs == {<<"1", ",", " ", "2">>, <<"1", ",", "x">>, <<"x">>, <<>>}

\* JSON patch data: missing, or { "title": "v" }
PatchData == {Absent, Present(<<[k |-> K_title, v |-> JStr("v")]>>)}

\* a command line option: missing, or given with one of the texts
Option(texts) == {Absent} \cup {Present(t) : t \in texts}

InitCommands ==
  /\ dryRun \in BOOLEAN
  /\ token = <<>>
  /\ InitCall
  /\ input = NoInput
  /\ output = NoOutput
  /\ tasks = <<>>
  /\ env \in {Absent, Present(EnvToken)}
  /\ config = NoFile
  /\ cmd = NoCmd

NextCommands ==
  \/ \E name \in SingleIdCommands, idArg \in IdArgs, data \in PatchData :
       CmdWithId(name, idArg, data)
  \/ \E idsArg \in IdsArgs : CmdCollectionDeleteMultiple(idsArg)
  \/ \E idsArg \in IdsArgs, targetArg \in IdArgs :
       CmdCollectionMerge(idsArg, targetArg)
  \/ \E idsOpt \in Option(IdsArgs), collOpt \in Option(IdArgs),
        data \in PatchData : CmdBatchUpdate(idsOpt, collOpt, data)
  \/ \E idsOpt \in Option(IdsArgs), collOpt \in Option(IdArgs) :
       CmdBatchDelete(idsOpt, collOpt)

SpecCommands == InitCommands /\ [][NextCommands]_vars

\* the commands that take identifiers
IdCommands ==
  SingleIdCommands \cup
  {"collection delete-multiple", "collection merge", "batch update",
   "batch delete"}

\* one of the identifiers given cannot be parsed
Unparsable == \E i \in 1..Len(cmd.given) : ParseInt(cmd.given[i]).nan

\* C26: a command that takes identifiers and is given one that cannot be
\* parsed ends with a validation error of status 400, and no transport call
\* is made
C26_UnparsableIdRefused ==
  cmd.name \in IdCommands /\ Unparsable =>
    /\ cmd.pc = "exited"
    /\ cmd.exit = 400
    /\ calls = 0

\* search() has raised
SearchFailed == IsSearch /\ pc = "done" /\ result.kind = "error"

\* the terminal error that belongs to the last outcome of a page request
TerminalErrorOf(o) ==
  CASE o.kind = "abort" -> TimeoutError
    [] o.kind = "throw" -> NetworkError
    [] o.kind = "response" /\ o.status = 429 -> RateLimitError
    [] o.kind = "response" /\ o.status # 429 /\ o.status >= 500 ->
         ServerError(o.status)
    [] o.kind = "response" /\ o.status < 500 /\ ~ResponseOk(o.status) ->
         ApiError(o.status)
    [] o.kind = "response" /\ ResponseOk(o.status) /\ o.body = NotJson ->
         NetworkError
    [] OTHER ->
         RaindropError(<<"Invalid API response for ", "search", ": ", "issues">>,
                       500, NoHint)

\* C27: a search whose page request ends in a terminal error raises the
\* error of that request and hands back no item, also when earlier pages
\* were received; a page request is made only when every request before it
\* has brought its page, and a search that ends with a request unanswered by
\* a page has raised
C27_SearchFailsWhole ==
  IsSearch =>
    /\ Len(reqs) - Len(pages) \in {0, 1}
    /\ pc = "done" => (result.kind = "error" <=> Len(reqs) = Len(pages) + 1)
    /\ SearchFailed =>
         /\ result = TerminalErrorOf(last)
         /\ result.value = JUndef

\* a search raised after it had received a page with items
C27_Witness ==
  /\ SearchFailed
  /\ Len(pages) >= 1
  /\ allItems # <<>>

\* request() has raised
CallFailed == pc = "done" /\ result.kind = "error" /\ "status" \in DOMAIN result

\* the errors that the loop body of request() and parseResponse raise
ExplicitErrors ==
  {RateLimitError, TimeoutError, NetworkError} \cup
  {ServerError(status) : status \in Statuses} \cup
  {ApiError(status) : status \in Statuses}

\* C28: the fallback error "Maximum retries exceeded" is never the result of
\* a call: request() goes to sleep only with an attempt count below 3, so
\* the test of its loop never fails, and a call that fails in request() ends
\* with a rate-limit, server, HTTP, timeout or network error
C28_FallbackUnreachable ==
  /\ result # MaxRetriesError
  /\ pc = "sleeping" => attempt < MAX_RETRIES
  /\ CallFailed /\ last.kind # "none" =>
       \/ result \in ExplicitErrors
       \/ last.kind = "response" /\ ResponseOk(last.status) /\ last.body # NotJson

\* a call failed on the network error of its third attempt
C28_Witness ==
  /\ CallFailed
  /\ attempt = MAX_RETRIES
  /\ last.kind = "throw"
  /\ result = NetworkError

\* C29: the timeout guard is armed exactly while a transport call is in
\* flight: it is cleared when the call settles, so that none is armed during
\* a backoff sleep or after request() has returned or raised; and the step
\* that starts a transport call finds no guard of an earlier attempt armed
\* and arms one of its own
C29_GuardPerAttempt ==
  /\ [](guard <=> pc = "fetching")
  /\ [][calls' # calls => ~guard /\ guard']_vars

\* the second attempt is in flight with its guard, after a sleep without one
C29_Witness ==
  /\ pc = "fetching"
  /\ guard
  /\ calls = 2
  /\ sleeps = 1

\* C30: every page request of a search starts with an attempt count of 0,
\* whatever the requests for the pages before it went through, so that a
\* search that has made p page requests has made at most 3 * p transport
\* calls, at most 3 of them for the page it is waiting for
C30_BudgetPerPage ==
  /\ [](IsSearch =>
          /\ calls <= MAX_RETRIES * Len(reqs)
          /\ attempt <= MAX_RETRIES
          /\ pc = "fetching" => attempt < MAX_RETRIES)
  /\ [][(op.name = "search")' /\ Len(reqs') = Len(reqs) + 1 =>
          attempt' = 0 /\ calls' = calls + 1]_vars

\* a search made three transport calls for each of its two pages
C30_Witness ==
  /\ IsSearch
  /\ Len(reqs) = 2
  /\ Len(pages) = 1
  /\ calls = 2 * MAX_RETRIES
  /\ attempt = MAX_RETRIES - 1
  /\ pc = "fetching"
====
